---------------------------- MODULE Spec2Model ----------------------------
(***************************************************************************)
(* State-machine model of the adaptive combat AI of ai_learning_opponent.  *)
(*                                                                         *)
(*   SpecPhase  : ai/phase_system.py, the PhaseSystem object driven alone  *)
(*   Spec       : ai/ai_core.py, AIBrain.update driving the enemy entity   *)
(*                inside the main loop's frame                             *)
(*   SpecUnhurt : the same over a longer fight in which the enemy is not   *)
(*                hit                                                      *)
(*                                                                         *)
(* Units.  Time is counted in milliseconds (dt = 20 is a 50 fps frame),    *)
(* fractions in [0,1] (HP, confidence, multipliers, chances) in hundredths *)
(* (0.30 is 30).  All arithmetic is exact integer arithmetic.              *)
(***************************************************************************)
EXTENDS Integers, Sequences, FiniteSets, TLC

VARIABLES
    ps,        \* the PhaseSystem object: _phase, _phase_timer, _fight_timer, _modifiers
    last,      \* component specifications: the last operation on the component driven
               \* alone, its inputs and what it started from
    brain,     \* the AIBrain object's own fields (its PhaseSystem, self.phase, is ps)
    enemy,     \* the enemy Character the brain drives
    now,       \* pygame.time.get_ticks(), ms
    hist,      \* Spec: what the last AIBrain operation was and what it started from
    desp,      \* a DesperationMode object: _modifiers, burst timers, _was_active, _was_rage
    styles,    \* an AttackStyleSystem object: active archetypes, weights, timers,
               \* the Mirror vector and the published modifiers
    balancer,  \* a DifficultyBalancer object: _stats, _smooth_score, _modifiers
    learner,   \* an AdaptiveLearning object: _confidence, the observation state, the
               \* profile and the advice
    stamina,   \* the enemy's StaminaComponent: stamina, _time_since_action
    intent,    \* the brain's CombatIntentSystem: the live signals and the smoothing state
    aggression \* the brain's AggressionSystem: tempo_mode and its PunishDetector

\* the sub-system objects that have a specification of their own; in Spec their
\* outputs are drawn from sets where the brain reads them
units == <<desp, styles, balancer, learner, stamina, intent, aggression>>

vars == <<ps, last, brain, enemy, now, hist, units>>

-----------------------------------------------------------------------------
(* CombatPhase, PhaseConfig                                                *)

OBSERVE == 0
COUNTER == 1
DESPERATION == 2
RAGE == 3

CombatPhase == {OBSERVE, COUNTER, DESPERATION, RAGE}

observe_min_duration == 4000
observe_exit_confidence == 35
desperation_hp_threshold == 30
rage_hp_threshold == 12

\* cfg.observe_min_duration * 2.5
ForcedCounterTime == (observe_min_duration * 5) \div 2

\* PhaseModifiers(): the dataclass defaults
DefaultPhaseModifiers ==
    [phase |-> OBSERVE, aggression_mult |-> 100, block_bonus |-> 0,
     cooldown_mult |-> 100, combo_mult |-> 100, punish_mult |-> 100,
     chase_mult |-> 100, feint_chance |-> 0, risk_boost |-> 0,
     stamina_ignore_frac |-> 0,
     just_transitioned |-> FALSE, previous_phase |-> OBSERVE]

\* the per-phase constant bundle PhaseSystem.update writes into _modifiers
PhaseBundle(p) ==
    CASE p = OBSERVE ->
           [aggression_mult |-> 65, block_bonus |-> 15, cooldown_mult |-> 125,
            combo_mult |-> 50, punish_mult |-> 100, chase_mult |-> 85,
            feint_chance |-> 0, risk_boost |-> 0, stamina_ignore_frac |-> 0]
      [] p = COUNTER ->
           [aggression_mult |-> 115, block_bonus |-> 5, cooldown_mult |-> 88,
            combo_mult |-> 120, punish_mult |-> 140, chase_mult |-> 110,
            feint_chance |-> 0, risk_boost |-> 0, stamina_ignore_frac |-> 0]
      [] p = DESPERATION ->
           [aggression_mult |-> 135, block_bonus |-> -10, cooldown_mult |-> 70,
            combo_mult |-> 150, punish_mult |-> 140, chase_mult |-> 135,
            feint_chance |-> 20, risk_boost |-> 30, stamina_ignore_frac |-> 0]
      [] OTHER ->
           [aggression_mult |-> 160, block_bonus |-> -25, cooldown_mult |-> 50,
            combo_mult |-> 180, punish_mult |-> 140, chase_mult |-> 155,
            feint_chance |-> 30, risk_boost |-> 50, stamina_ignore_frac |-> 60]

BundleFields ==
    {"aggression_mult", "block_bonus", "cooldown_mult", "combo_mult", "punish_mult",
     "chase_mult", "feint_chance", "risk_boost", "stamina_ignore_frac"}

-----------------------------------------------------------------------------
(* PhaseSystem                                                             *)

\* PhaseSystem.__init__
PhaseSystemInit ==
    [phase |-> OBSERVE, phase_timer |-> 0, fight_timer |-> 0,
     modifiers |-> DefaultPhaseModifiers]

\* a slip in the rage guard: "below" instead of "at or below" the threshold
NextPhaseRageStrict(p, phase_timer, fight_timer, hp, confidence) ==
    IF hp < rage_hp_threshold /\ p # RAGE THEN RAGE
    ELSE IF hp <= desperation_hp_threshold /\ p < DESPERATION THEN DESPERATION
    ELSE IF p = OBSERVE /\ phase_timer >= observe_min_duration
            /\ confidence >= observe_exit_confidence THEN COUNTER
    ELSE IF p = OBSERVE /\ fight_timer > ForcedCounterTime THEN COUNTER
    ELSE p

\* a slip in the desperation guard: "not already Desperation" instead of "below"
NextPhaseDemoting(p, phase_timer, fight_timer, hp, confidence) ==
    IF hp <= rage_hp_threshold /\ p # RAGE THEN RAGE
    ELSE IF hp <= desperation_hp_threshold /\ p # DESPERATION THEN DESPERATION
    ELSE IF p = OBSERVE /\ phase_timer >= observe_min_duration
            /\ confidence >= observe_exit_confidence THEN COUNTER
    ELSE IF p = OBSERVE /\ fight_timer > ForcedCounterTime THEN COUNTER
    ELSE p

\* a slip in the order of the chain: the Observe exit tested before the HP checks
NextPhaseCounterFirst(p, phase_timer, fight_timer, hp, confidence) ==
    IF p = OBSERVE /\ phase_timer >= observe_min_duration
       /\ confidence >= observe_exit_confidence THEN COUNTER
    ELSE IF hp <= rage_hp_threshold /\ p # RAGE THEN RAGE
    ELSE IF hp <= desperation_hp_threshold /\ p < DESPERATION THEN DESPERATION
    ELSE IF p = OBSERVE /\ fight_timer > ForcedCounterTime THEN COUNTER
    ELSE p

\* a slip in the Observe exit: the minimum duration is not required
NextPhaseNoMinDuration(p, phase_timer, fight_timer, hp, confidence) ==
    IF hp <= rage_hp_threshold /\ p # RAGE THEN RAGE
    ELSE IF hp <= desperation_hp_threshold /\ p < DESPERATION THEN DESPERATION
    ELSE IF p = OBSERVE /\ confidence >= observe_exit_confidence THEN COUNTER
    ELSE IF p = OBSERVE /\ fight_timer > ForcedCounterTime THEN COUNTER
    ELSE p

\* a slip in the anti-stall rule: the forced entry waits for 3 x the minimum duration
NextPhaseLateForce(p, phase_timer, fight_timer, hp, confidence) ==
    IF hp <= rage_hp_threshold /\ p # RAGE THEN RAGE
    ELSE IF hp <= desperation_hp_threshold /\ p < DESPERATION THEN DESPERATION
    ELSE IF p = OBSERVE /\ phase_timer >= observe_min_duration
            /\ confidence >= observe_exit_confidence THEN COUNTER
    ELSE IF p = OBSERVE /\ fight_timer > observe_min_duration * 3 THEN COUNTER
    ELSE p

\* the if/elif chain of PhaseSystem.update: the phase after the frame, given the
\* timers already advanced by dt
NextPhase(p, phase_timer, fight_timer, hp, confidence) ==
    IF hp <= rage_hp_threshold /\ p # RAGE THEN RAGE
    ELSE IF hp <= desperation_hp_threshold /\ p < DESPERATION THEN DESPERATION
    ELSE IF p = OBSERVE /\ phase_timer >= observe_min_duration
            /\ confidence >= observe_exit_confidence THEN COUNTER
    ELSE IF p = OBSERVE /\ fight_timer > ForcedCounterTime THEN COUNTER
    ELSE p

\* a slip in the transition handling: the phase timer keeps running
PhaseTimerKept(transitioned, phase_timer) == phase_timer

\* "if transitioned: self._phase_timer = 0.0"
PhaseTimerAfter(transitioned, phase_timer) ==
    IF transitioned THEN 0 ELSE phase_timer

\* PhaseSystem.update(dt, enemy_hp_frac, confidence, flow_ratio)
PhaseSystemUpdate(s, dt, hp, confidence, flow_ratio) ==
    LET fight    == s.fight_timer + dt
        ptimer   == s.phase_timer + dt
        old      == s.phase
        new      == NextPhase(old, ptimer, fight, hp, confidence)
        changed  == new # old
    IN  [phase |-> new,
         phase_timer |-> PhaseTimerAfter(changed, ptimer),
         fight_timer |-> fight,
         modifiers |-> [f \in DOMAIN DefaultPhaseModifiers |->
                          CASE f = "phase" -> new
                            [] f = "just_transitioned" -> changed
                            [] f = "previous_phase" -> old
                            [] OTHER -> PhaseBundle(new)[f]]]

\* PhaseSystem.reset(): _transition_flag is never read and is left out
PhaseSystemReset(s) == PhaseSystemInit

-----------------------------------------------------------------------------
(* settings.py, in ms, pixels and hundredths                               *)

ATTACK_RANGE == 75
ENEMY_QUICK_DAMAGE == 5
ENEMY_QUICK_RANGE == 65
ENEMY_HEAVY_DAMAGE == 12
ENEMY_HEAVY_RANGE == 85
ENEMY_RETREAT_DURATION == 600
PROJECTILE_COOLDOWN == 2000
DUELIST_DAMAGE_MULT == 130
DUELIST_THINK_INTERVAL == 150
DUELIST_COUNTER_WINDOW == 450
DUELIST_COUNTER_DAMAGE == 8
DUELIST_COMBO_WINDOW == 200
DUELIST_COMBO_DAMAGE == 4
ENEMY_REGEN_CAP_PCT == 80

\* AIBrain.__init__ and DesperationConfig
IDLE_LIMIT == 6
max_block_duration == 800
base_think_default == 200
feint_cancel_window == 150
activation_threshold == 30
desp_rage_hp_threshold == 12
risk_combo_hits == 3

Max(a, b) == IF a >= b THEN a ELSE b

\* int(x * m) for a multiplier m in hundredths
Scaled(x, m) == (x * m) \div 100

-----------------------------------------------------------------------------
(* entities/character.py: the part of the enemy the brain reads and drives *)

EnemyInit ==
    [hp |-> 100, is_stunned |-> FALSE, is_blocking |-> FALSE,
     is_dodging |-> FALSE, anim_state |-> "idle"]

\* Character.alive
Alive(e) == e.hp > 0

\* Character.can_act
CanAct(e) ==
    /\ Alive(e)
    /\ ~e.is_stunned
    /\ ~e.is_dodging
    /\ e.anim_state \notin {"hurt", "death"}

\* Character.start_attack
StartAttack(e) ==
    IF e.anim_state \in {"attack", "death"} THEN e
    ELSE [e EXCEPT !.anim_state = "attack"]

\* Character.start_block
StartBlock(e) ==
    IF e.anim_state = "death" THEN e
    ELSE [e EXCEPT !.is_blocking = TRUE, !.anim_state = "block"]

\* Character.stop_block
StopBlock(e) ==
    [e EXCEPT !.is_blocking = FALSE,
              !.anim_state = IF @ = "block" THEN "idle" ELSE @]

\* Character.start_dodge: the outcomes, refused (death animation or dodge cooldown
\* still running, which is not modelled) or started
StartDodge(e) ==
    {e} \cup
    (IF e.anim_state = "death" THEN {}
     ELSE {[e EXCEPT !.is_dodging = TRUE, !.is_blocking = FALSE,
                     !.anim_state = IF @ = "block" THEN "idle" ELSE @]})

-----------------------------------------------------------------------------
(* ai/ai_system.py: DuelistBehavior                                        *)

DuelistInit ==
    [counter_window_timer |-> 0, counter_ready |-> FALSE,
     combo_timer |-> 0, combo_queued |-> FALSE, combo_damage |-> 0,
     player_was_attacking |-> FALSE, punish_ready |-> FALSE]

\* DuelistBehavior.update
DuelistUpdate(d, dt, player_is_attacking, dist) ==
    LET cw == IF d.counter_window_timer > 0 THEN d.counter_window_timer - dt
              ELSE d.counter_window_timer
        cr == IF d.counter_window_timer > 0 /\ cw <= 0 THEN FALSE ELSE d.counter_ready
        ct == IF d.combo_timer > 0 THEN d.combo_timer - dt ELSE d.combo_timer
        pr == IF d.player_was_attacking /\ ~player_is_attacking
              THEN (IF dist * 10 < ATTACK_RANGE * 16 THEN TRUE ELSE d.punish_ready)
              ELSE FALSE
    IN  [d EXCEPT !.counter_window_timer = cw, !.counter_ready = cr,
                  !.combo_timer = ct, !.punish_ready = pr,
                  !.player_was_attacking = player_is_attacking]

\* DuelistBehavior.on_block_success
DuelistOnBlockSuccess(d) ==
    [d EXCEPT !.counter_window_timer = DUELIST_COUNTER_WINDOW, !.counter_ready = TRUE]

\* DuelistBehavior.on_hit_landed
DuelistOnHitLanded(d) ==
    [d EXCEPT !.combo_timer = DUELIST_COMBO_WINDOW, !.combo_queued = TRUE,
              !.combo_damage = DUELIST_COMBO_DAMAGE]

-----------------------------------------------------------------------------
(* ai/desperation_mode.py: the two flags of DesperationModifiers the FSM reads, as *)
(* DesperationMode.update computes them from the frame's HP fraction               *)

DespActive(hp) == hp < activation_threshold

\* a slip in the rage test: the threshold itself is not rage yet
RageActiveStrict(hp) == DespActive(hp) /\ hp < desp_rage_hp_threshold

RageActive(hp) == DespActive(hp) /\ hp <= desp_rage_hp_threshold

\* DesperationModifiers fractions are counted in 1/3000 (1.0 is 3000), the unit in
\* which intensity * coefficient is exact for HP in hundredths: intensity is
\* (activation_threshold - hp) / activation_threshold
DUnit == 100 * activation_threshold
InHundredths(x) == x * activation_threshold

\* DesperationConfig, in hundredths (times in ms)
max_aggression_boost == 45
max_cooldown_reduction == 45
max_combo_chance_boost == 35
max_chase_speed_boost == 40
max_defense_reduction == 35
max_risk_tolerance_boost == 40
burst_duration == 1500
burst_aggression_extra == 20
burst_cooldown_extra == 15
feint_chance_base == 10
feint_chance_max == 35
attack_cancel_chance == 12
attack_cancel_max == 30
risk_combo_chance == 15
risk_combo_max == 40
rage_aggression_override == 70
rage_cooldown_floor == 20
rage_stamina_ignore == 60
rage_retreat_override == 0
rage_block_override == 0
rage_chase_speed_override == 160

Min(a, b) == IF a <= b THEN a ELSE b

\* DesperationModifiers()
DesperationModifiersInit ==
    [active |-> FALSE, intensity |-> 0,
     aggression_boost |-> 0, cooldown_mult |-> DUnit, combo_chance_boost |-> 0,
     chase_speed_mult |-> DUnit, defense_reduction |-> 0, risk_tolerance_boost |-> 0,
     burst_active |-> FALSE,
     feint_chance |-> 0, attack_cancel_chance |-> 0, risk_combo_chance |-> 0,
     risk_combo_hits |-> risk_combo_hits,
     rage_active |-> FALSE, rage_stamina_ignore |-> 0,
     rage_retreat_override |-> -DUnit, rage_block_override |-> -DUnit]

\* DesperationMode.__init__
DesperationModeInit ==
    [m |-> DesperationModifiersInit,
     burst_timer |-> 0, was_active |-> FALSE, was_rage |-> FALSE, rage_burst_timer |-> 0]

\* a slip in the inactive branch: the burst flag and the rage fields are left alone
NotInDesperationKeepingRage(d) ==
    [d EXCEPT !.m = [@ EXCEPT !.active = FALSE, !.intensity = 0,
                              !.aggression_boost = 0, !.cooldown_mult = DUnit,
                              !.combo_chance_boost = 0, !.chase_speed_mult = DUnit,
                              !.defense_reduction = 0, !.risk_tolerance_boost = 0,
                              !.feint_chance = 0, !.attack_cancel_chance = 0,
                              !.risk_combo_chance = 0],
              !.was_active = FALSE, !.was_rage = FALSE]

\* DesperationMode.update, the branch for HP at or above the activation threshold
\* (risk_combo_hits and the two burst timers are not written by it)
NotInDesperation(d) ==
    [d EXCEPT !.m = [@ EXCEPT !.active = FALSE, !.intensity = 0,
                              !.aggression_boost = 0, !.cooldown_mult = DUnit,
                              !.combo_chance_boost = 0, !.chase_speed_mult = DUnit,
                              !.defense_reduction = 0, !.risk_tolerance_boost = 0,
                              !.burst_active = FALSE,
                              !.feint_chance = 0, !.attack_cancel_chance = 0,
                              !.risk_combo_chance = 0,
                              !.rage_active = FALSE, !.rage_stamina_ignore = 0,
                              !.rage_retreat_override = -DUnit,
                              !.rage_block_override = -DUnit],
              !.was_active = FALSE, !.was_rage = FALSE]

\* DesperationMode.update, the branch for HP below the activation threshold
InDesperation(d, dt, hp) ==
    LET t == Max(0, Min(DUnit, DUnit - 100 * hp))      \* intensity
        burst_timer0 == IF d.was_active THEN d.burst_timer ELSE burst_duration
        burst == burst_timer0 > 0
        burst_timer1 == IF burst THEN burst_timer0 - dt ELSE burst_timer0
        burst_aggr == IF burst THEN InHundredths(burst_aggression_extra) ELSE 0
        burst_cd == IF burst THEN InHundredths(burst_cooldown_extra) ELSE 0
        \* t * coefficient, t in 1/3000 and the coefficient in hundredths
        Times(c) == (t * c) \div 100
        aggr_boost == Times(max_aggression_boost) + burst_aggr
        cooldown == Max(InHundredths(30),
                        DUnit - (Times(max_cooldown_reduction) + burst_cd))
        chase == DUnit + Times(max_chase_speed_boost)
        rage == RageActive(hp)
        rage_timer0 == IF d.was_rage THEN d.rage_burst_timer
                       ELSE (burst_duration * 8) \div 10
        rage_timer1 == IF rage_timer0 > 0 THEN rage_timer0 - dt ELSE rage_timer0
    IN  [m |-> [active |-> TRUE, intensity |-> t,
                aggression_boost |->
                    IF rage THEN Max(aggr_boost, InHundredths(rage_aggression_override))
                    ELSE aggr_boost,
                cooldown_mult |->
                    IF rage THEN Min(cooldown, (DUnit * rage_cooldown_floor) \div 60)
                    ELSE cooldown,
                combo_chance_boost |-> Times(max_combo_chance_boost),
                chase_speed_mult |->
                    IF rage THEN Max(chase, InHundredths(rage_chase_speed_override))
                    ELSE chase,
                defense_reduction |-> Times(max_defense_reduction),
                risk_tolerance_boost |-> Times(max_risk_tolerance_boost),
                burst_active |-> burst,
                feint_chance |-> InHundredths(feint_chance_base)
                                   + Times(feint_chance_max - feint_chance_base),
                attack_cancel_chance |-> InHundredths(attack_cancel_chance)
                                   + Times(attack_cancel_max - attack_cancel_chance),
                risk_combo_chance |-> InHundredths(risk_combo_chance)
                                   + Times(risk_combo_max - risk_combo_chance),
                risk_combo_hits |-> risk_combo_hits,
                rage_active |-> rage,
                rage_stamina_ignore |-> IF rage THEN InHundredths(rage_stamina_ignore) ELSE 0,
                rage_retreat_override |->
                    IF rage THEN InHundredths(rage_retreat_override) ELSE -DUnit,
                rage_block_override |->
                    IF rage THEN InHundredths(rage_block_override) ELSE -DUnit],
         burst_timer |-> burst_timer1,
         was_active |-> TRUE,
         was_rage |-> IF rage THEN TRUE ELSE d.was_rage,
         rage_burst_timer |-> IF rage THEN rage_timer1 ELSE d.rage_burst_timer]

\* DesperationMode.update(dt, enemy_hp_frac)
DesperationModeUpdate(d, dt, hp) ==
    IF hp >= activation_threshold THEN NotInDesperation(d) ELSE InDesperation(d, dt, hp)

\* DesperationMode.reset
DesperationModeReset(d) == DesperationModeInit

\* random.random() < chance: the outcomes the roll can have
Roll(chance, unit) ==
    {r \in BOOLEAN : (r => chance > 0) /\ (~r => chance < unit)}

\* DesperationMode.should_feint / should_cancel_attack / should_risk_combo
ShouldFeint(d) == IF ~d.m.active THEN {FALSE} ELSE Roll(d.m.feint_chance, DUnit)
ShouldCancelAttack(d) ==
    IF ~d.m.active THEN {FALSE} ELSE Roll(d.m.attack_cancel_chance, DUnit)
ShouldRiskCombo(d) ==
    IF ~d.m.active THEN {FALSE} ELSE Roll(d.m.risk_combo_chance, DUnit)

-----------------------------------------------------------------------------
(* ai/attack_style_system.py: AttackStyleSystem.  Coefficients are counted   *)
(* in thousandths (0.95 is 950), the spacing offset in pixels; a weight is    *)
(* the exact fraction num / den, all weights of a blend sharing the           *)
(* denominator, so that sums and quotients are exact                          *)

Fields ==
    {"aggression_mult", "cooldown_mult", "block_readiness", "dodge_readiness",
     "feint_chance", "combo_complexity", "chase_speed_mult", "retreat_tendency",
     "spacing_offset", "heavy_attack_bias", "punish_aggression", "strafe_speed_mult",
     "movement_erratic"}

\* StyleModifiers(): the dataclass defaults
StyleModifiersDefault ==
    [aggression_mult |-> 1000, cooldown_mult |-> 1000, block_readiness |-> 300,
     dodge_readiness |-> 100, feint_chance |-> 0, combo_complexity |-> 500,
     chase_speed_mult |-> 1000, retreat_tendency |-> 200, spacing_offset |-> 0,
     heavy_attack_bias |-> 0, punish_aggression |-> 300, strafe_speed_mult |-> 1000,
     movement_erratic |-> 0]

\* ARCHETYPE_FACTORY
ARCHETYPE_FACTORY ==
    [Trickster |->
        [aggression_mult |-> 950, cooldown_mult |-> 900, block_readiness |-> 200,
         dodge_readiness |-> 350, feint_chance |-> 400, combo_complexity |-> 800,
         chase_speed_mult |-> 1050, retreat_tendency |-> 300, spacing_offset |-> -5,
         heavy_attack_bias |-> -150, punish_aggression |-> 400,
         strafe_speed_mult |-> 1300, movement_erratic |-> 500],
     Analyzer |->
        [aggression_mult |-> 850, cooldown_mult |-> 1100, block_readiness |-> 550,
         dodge_readiness |-> 250, feint_chance |-> 100, combo_complexity |-> 700,
         chase_speed_mult |-> 950, retreat_tendency |-> 350, spacing_offset |-> 10,
         heavy_attack_bias |-> 100, punish_aggression |-> 650,
         strafe_speed_mult |-> 1000, movement_erratic |-> 100],
     Predator |->
        [aggression_mult |-> 1400, cooldown_mult |-> 750, block_readiness |-> 150,
         dodge_readiness |-> 100, feint_chance |-> 50, combo_complexity |-> 450,
         chase_speed_mult |-> 1350, retreat_tendency |-> 50, spacing_offset |-> -15,
         heavy_attack_bias |-> 150, punish_aggression |-> 500,
         strafe_speed_mult |-> 800, movement_erratic |-> 150],
     Tactician |->
        [aggression_mult |-> 1000, cooldown_mult |-> 1000, block_readiness |-> 400,
         dodge_readiness |-> 200, feint_chance |-> 150, combo_complexity |-> 650,
         chase_speed_mult |-> 1000, retreat_tendency |-> 250, spacing_offset |-> 5,
         heavy_attack_bias |-> 50, punish_aggression |-> 550,
         strafe_speed_mult |-> 1100, movement_erratic |-> 200],
     Berserker |->
        [aggression_mult |-> 1550, cooldown_mult |-> 600, block_readiness |-> 50,
         dodge_readiness |-> 50, feint_chance |-> 0, combo_complexity |-> 300,
         chase_speed_mult |-> 1300, retreat_tendency |-> 0, spacing_offset |-> -20,
         heavy_attack_bias |-> 350, punish_aggression |-> 250,
         strafe_speed_mult |-> 700, movement_erratic |-> 100],
     Mirror |->
        [aggression_mult |-> 1000, cooldown_mult |-> 1000, block_readiness |-> 300,
         dodge_readiness |-> 150, feint_chance |-> 100, combo_complexity |-> 500,
         chase_speed_mult |-> 1000, retreat_tendency |-> 200, spacing_offset |-> 0,
         heavy_attack_bias |-> 0, punish_aggression |-> 350,
         strafe_speed_mult |-> 1000, movement_erratic |-> 200],
     Phantom |->
        [aggression_mult |-> 800, cooldown_mult |-> 850, block_readiness |-> 150,
         dodge_readiness |-> 450, feint_chance |-> 250, combo_complexity |-> 600,
         chase_speed_mult |-> 1150, retreat_tendency |-> 500, spacing_offset |-> 15,
         heavy_attack_bias |-> -100, punish_aggression |-> 450,
         strafe_speed_mult |-> 1400, movement_erratic |-> 700]]

ALL_ARCHETYPES == DOMAIN ARCHETYPE_FACTORY

\* StyleConfig (hundredths and ms)
style_shift_interval == 8000
style_shift_jitter == 3000
mirror_copy_strength == 75
min_weight == 15
staleness_timer == 12000
action_buffer_size == 6

RECURSIVE SumSeq(_)
SumSeq(q) == IF q = <<>> THEN 0 ELSE Head(q) + SumSeq(Tail(q))

RECURSIVE Gcd(_, _)
Gcd(a, b) == IF b = 0 THEN a ELSE Gcd(b, a % b)

RECURSIVE GcdSeq(_)
GcdSeq(q) == IF q = <<>> THEN 0 ELSE Gcd(Head(q), GcdSeq(Tail(q)))

\* the same fractions num / den in lowest terms
Lowest(nums, den) ==
    LET g == Gcd(GcdSeq(nums), den)
    IN  IF g = 0 THEN [nums |-> nums, den |-> den]
        ELSE [nums |-> [i \in DOMAIN nums |-> nums[i] \div g], den |-> den \div g]

Range(q) == {q[i] : i \in DOMAIN q}

RemoveAt(q, k) == [i \in 1..(Len(q) - 1) |-> IF i < k THEN q[i] ELSE q[i + 1]]

\* a slip in the renormalisation: the weights are left as they are
NormaliseWeightsSkipped(s) == s

\* AttackStyleSystem._normalise_weights: every weight divided by their sum
NormaliseWeights(s) ==
    LET total == SumSeq(s.nums)
    IN  IF total > 0
        THEN LET l == Lowest(s.nums, total)
             IN  [s EXCEPT !.nums = l.nums, !.den = l.den]
        ELSE s

\* _init_weights: raw weights drawn from [0.3, 1.0] and divided by their sum
InitWeights(raw) == Lowest(raw, SumSeq(raw))

\* the index of the first smallest / first largest weight
MinIdx(nums) ==
    CHOOSE i \in DOMAIN nums :
        /\ \A j \in DOMAIN nums : nums[i] <= nums[j]
        /\ \A j \in 1..(i - 1) : nums[j] > nums[i]

MaxIdx(nums) ==
    CHOOSE i \in DOMAIN nums :
        /\ \A j \in DOMAIN nums : nums[i] >= nums[j]
        /\ \A j \in 1..(i - 1) : nums[j] < nums[i]

\* AttackStyleSystem.dominant_archetype
DominantArchetype(s) ==
    IF s.active = <<>> THEN "Tactician" ELSE s.active[MaxIdx(s.nums)]

\* the weight at index k set to cfg.min_weight, over a common denominator
WithMinWeight(nums, den, k) ==
    [nums |-> [i \in DOMAIN nums |-> IF i = k THEN min_weight * den ELSE nums[i] * 100],
     den |-> den * 100]

\* the archetype's cached coefficient vector, _archetype_mods[name]; only the Mirror
\* entry is ever changed after the factory made it
ArchetypeMods(s, name) == IF name = "Mirror" THEN s.mirror ELSE ARCHETYPE_FACTORY[name]

\* _archetype_mods[new_arch] = ARCHETYPE_FACTORY[new_arch]()
Cached(s, name) ==
    IF name = "Mirror" THEN [s EXCEPT !.mirror = ARCHETYPE_FACTORY["Mirror"]] ELSE s

\* AttackStyleSystem._shift_styles: the lowest weight leaves, an inactive archetype
\* enters at min_weight
ShiftStyles(s) ==
    IF Len(s.active) < 2 THEN {s}
    ELSE LET k == MinIdx(s.nums)
             removed == s.active[k]
             act == RemoveAt(s.active, k)
             nums == RemoveAt(s.nums, k)
             stale == [a \in Range(act) |-> s.staleness[a]]
             available == ALL_ARCHETYPES \ Range(act)
         IN  {LET w == WithMinWeight(Append(nums, 0), s.den, Len(nums) + 1)
              IN  NormaliseWeights(
                      [Cached(s, new) EXCEPT
                          !.active = Append(act, new),
                          !.nums = w.nums, !.den = w.den,
                          !.staleness = [a \in Range(act) \cup {new} |->
                                            IF a = new THEN 0 ELSE stale[a]]]) :
                new \in available}

\* a slip in _replace_stale: the stale archetype is left in place
ReplaceStaleKeeping(s, stale_name) == {s}

\* AttackStyleSystem._replace_stale
ReplaceStale(s, stale_name) ==
    IF stale_name \notin Range(s.active) THEN {s}
    ELSE LET idx == CHOOSE i \in DOMAIN s.active : s.active[i] = stale_name
             available == ALL_ARCHETYPES \ Range(s.active)
         IN  IF available = {} THEN {s}
             ELSE {LET w == WithMinWeight(s.nums, s.den, idx)
                       act == [s.active EXCEPT ![idx] = new]
                   IN  NormaliseWeights(
                           [Cached(s, new) EXCEPT
                               !.active = act,
                               !.nums = w.nums, !.den = w.den,
                               !.staleness = [a \in Range(act) |->
                                                 IF a = new THEN 0 ELSE s.staleness[a]]]) :
                     new \in available}

\* AttackStyleSystem._update_mirror: the Mirror vector recomputed from the profile
\* (profile fields in hundredths, results in thousandths)
UpdateMirror(s, profile) ==
    LET c == mirror_copy_strength
        combo == 300 + ((100 - profile.combo_repetition) * c * 50) \div 1000
    IN  [s EXCEPT !.mirror =
            [@ EXCEPT !.aggression_mult = 700 + (profile.attack_frequency * c * 80) \div 1000,
                      !.cooldown_mult = 1200 - (profile.attack_frequency * c * 40) \div 1000,
                      !.block_readiness = (profile.block_after_hit * c) \div 10,
                      !.dodge_readiness = (profile.dodge_frequency * c) \div 10,
                      !.retreat_tendency = (profile.retreat_after_attack * c) \div 10,
                      !.heavy_attack_bias = ((profile.heavy_attack_ratio - 50) * c) \div 10,
                      !.combo_complexity = Min(1000, combo)]]

\* sum over the active archetypes of weight x coefficient, as a numerator over den
RECURSIVE WeightedSum(_, _, _)
WeightedSum(s, f, i) ==
    IF i = 0 THEN 0
    ELSE ArchetypeMods(s, s.active[i])[f] * s.nums[i] + WeightedSum(s, f, i - 1)

\* a blend that starts from zero instead of StyleModifiers()
PureBlend(s) ==
    [den |-> s.den, v |-> [f \in Fields |-> WeightedSum(s, f, Len(s.active))]]

\* AttackStyleSystem._blend: result = StyleModifiers(), then every field has the
\* weighted coefficients added to it
Blend(s) ==
    [s EXCEPT !.modifiers =
        IF s.active = <<>> THEN [den |-> 1, v |-> StyleModifiersDefault]
        ELSE [den |-> s.den,
              v |-> [f \in Fields |-> StyleModifiersDefault[f] * s.den
                                          + WeightedSum(s, f, Len(s.active))]]]

\* AttackStyleSystem.__init__ with the default initial_archetypes: a random sample
\* of blend_count archetypes, random weights, a jittered shift timer; _modifiers is
\* StyleModifiers() until the first blend
AttackStyleSystemInit(blend_count, sample, raw, jitter) ==
    LET act == SubSeq(sample, 1, Min(blend_count, Len(sample)))
        w == InitWeights([i \in DOMAIN act |-> raw[i]])
    IN  [blend_count |-> blend_count,
         modifiers |-> [den |-> 1, v |-> StyleModifiersDefault],
         active |-> act,
         nums |-> w.nums,
         den |-> w.den,
         shift_timer |-> style_shift_interval + jitter,
         staleness |-> [a \in Range(act) |-> 0],
         action_buffer |-> <<>>,
         mirror |-> ARCHETYPE_FACTORY["Mirror"]]

\* AttackStyleSystem.record_action: append to the deque of maxlen action_buffer_size
RecordAction(s, action) ==
    [s EXCEPT !.action_buffer = IF Len(@) >= action_buffer_size
                                THEN Append(Tail(@), action) ELSE Append(@, action)]

\* AttackStyleSystem.should_vary_action: the last two recorded actions are both the
\* proposed one
ShouldVaryAction(s, proposed) ==
    LET n == Len(s.action_buffer)
    IN  n >= 2 /\ s.action_buffer[n] = proposed /\ s.action_buffer[n - 1] = proposed

\* player_profile = None
NoProfile == [none |-> TRUE]

\* AttackStyleSystem.update up to its staleness check: the shift timer and the
\* rotation it triggers, then every active archetype's staleness advanced by dt
StalenessCheckInput(s, dt, jitter) ==
    LET s1 == [s EXCEPT !.shift_timer = @ - dt]
        shifted == IF s1.shift_timer <= 0
                   THEN {[s2 EXCEPT !.shift_timer = style_shift_interval + jitter] :
                           s2 \in ShiftStyles(s1)}
                   ELSE {s1}
    IN  {[s3 EXCEPT !.staleness = [a \in DOMAIN @ |-> @[a] + dt]] : s3 \in shifted}

\* the staleness check of update: the dominant archetype is replaced when it has been
\* active for more than cfg.staleness_timer
StalenessCheck(s4) ==
    IF s4.staleness[DominantArchetype(s4)] > staleness_timer
    THEN ReplaceStale(s4, DominantArchetype(s4))
    ELSE {s4}

\* the end of update: the Mirror adjustment and the blend
MirrorAndBlend(s5, profile) ==
    Blend(IF "Mirror" \in Range(s5.active) /\ profile # NoProfile
          THEN UpdateMirror(s5, profile) ELSE s5)

\* AttackStyleSystem.update(dt, player_profile)
AttackStyleSystemUpdate(s, dt, profile, jitter) ==
    {MirrorAndBlend(s5, profile) :
       s5 \in UNION {StalenessCheck(s4) : s4 \in StalenessCheckInput(s, dt, jitter)}}

\* AttackStyleSystem.reset: a new sample, new weights, a new shift timer, a blend
AttackStyleSystemReset(s, sample, raw, jitter) ==
    Blend(AttackStyleSystemInit(s.blend_count, sample, raw, jitter))

-----------------------------------------------------------------------------
(* ai/difficulty_balancer.py: DifficultyBalancer.  Its floats are exact      *)
(* fractions [n, d] in lowest terms with d > 0; config values in hundredths  *)

Abs(x) == IF x < 0 THEN -x ELSE x

QNorm(n, d) == LET g == Gcd(Abs(n), d) IN [n |-> n \div g, d |-> d \div g]
QInt(k) == [n |-> k, d |-> 1]
QAdd(x, y) == QNorm(x.n * y.d + y.n * x.d, x.d * y.d)
QSub(x, y) == QNorm(x.n * y.d - y.n * x.d, x.d * y.d)
QMul(x, y) == QNorm(x.n * y.n, x.d * y.d)
QLess(x, y) == x.n * y.d < y.n * x.d
QMin(x, y) == IF QLess(y, x) THEN y ELSE x
QMax(x, y) == IF QLess(x, y) THEN y ELSE x
QAbs(x) == [n |-> Abs(x.n), d |-> x.d]
\* max(-1.0, min(1.0, x))
QClamp(x) == QMax(QInt(-1), QMin(QInt(1), x))

\* BalancerConfig
strength == 65
ease_threshold == -25
sharpen_threshold == 25
smooth_rate == 150
ease_reaction_delay_add == 8
ease_aggression_mult == 70
ease_cooldown_mult == 135
ease_combo_mult == 50
ease_accuracy_mult == 80
ease_telegraph_add == 20
sharp_reaction_delay_add == -4
sharp_aggression_mult == 130
sharp_cooldown_mult == 80
sharp_combo_mult == 140
sharp_punish_mult == 150
sharp_variation == 80
sharp_spacing_tightness == 125

Cfg(h) == QNorm(h, 100)

\* DifficultyModifiers()
DifficultyModifiersInit ==
    [balance_score |-> QInt(0), reaction_delay_adj |-> QInt(0),
     aggression_mult |-> QInt(1), cooldown_mult |-> QInt(1), combo_mult |-> QInt(1),
     accuracy_mult |-> QInt(1), telegraph_chance |-> QInt(0), punish_mult |-> QInt(1),
     variation_boost |-> QInt(0), spacing_tightness |-> QInt(1)]

\* _MatchStats()
MatchStatsInit ==
    [player_damage_dealt |-> 0, player_damage_taken |-> 0, player_hits |-> 0,
     player_misses |-> 0, player_blocks_success |-> 0, player_dodges |-> 0,
     enemy_hits |-> 0, enemy_misses |-> 0, rounds_player_won |-> 0,
     rounds_enemy_won |-> 0, total_fight_time |-> 0]

\* _MatchStats.damage_ratio
DamageRatio(st) ==
    LET total == st.player_damage_dealt + st.player_damage_taken
    IN  IF total = 0 THEN QInt(0)
        ELSE QNorm(st.player_damage_dealt - st.player_damage_taken, total)

\* _MatchStats.hit_ratio
HitRatio(st) ==
    LET p_total == st.player_hits + st.player_misses
        e_total == st.enemy_hits + st.enemy_misses
    IN  QSub(QNorm(st.player_hits, Max(1, p_total)), QNorm(st.enemy_hits, Max(1, e_total)))

\* _MatchStats.defense_score
DefenseScore(st) ==
    LET total_attacks_on_player ==
            st.enemy_hits + st.player_blocks_success + st.player_dodges
        defended == st.player_blocks_success + st.player_dodges
    IN  IF total_attacks_on_player = 0 THEN QNorm(1, 2)
        ELSE QNorm(defended, total_attacks_on_player)

\* _MatchStats.balance_score
BalanceScore(st) ==
    LET dmg == QMul(DamageRatio(st), QNorm(1, 2))
        hit == QMul(HitRatio(st), QNorm(1, 4))
        defense == QMul(QSub(DefenseScore(st), QNorm(1, 2)), QNorm(1, 4))
    IN  QClamp(QAdd(QAdd(dmg, hit), defense))

\* DifficultyBalancer.__init__
DifficultyBalancerInit ==
    [stats |-> MatchStatsInit, modifiers |-> DifficultyModifiersInit,
     smooth_score |-> QInt(0)]

\* the record_* methods
RecordPlayerHit(b, damage) ==
    [b EXCEPT !.stats.player_damage_dealt = @ + damage, !.stats.player_hits = @ + 1]
RecordPlayerMiss(b) == [b EXCEPT !.stats.player_misses = @ + 1]
RecordEnemyHit(b, damage) ==
    [b EXCEPT !.stats.player_damage_taken = @ + damage, !.stats.enemy_hits = @ + 1]
RecordEnemyMiss(b) == [b EXCEPT !.stats.enemy_misses = @ + 1]
RecordPlayerBlock(b) == [b EXCEPT !.stats.player_blocks_success = @ + 1]
RecordPlayerDodge(b) == [b EXCEPT !.stats.player_dodges = @ + 1]
RecordRoundResult(b, player_won) ==
    IF player_won THEN [b EXCEPT !.stats.rounds_player_won = @ + 1]
    ELSE [b EXCEPT !.stats.rounds_enemy_won = @ + 1]

\* 1.0 + (mult - 1.0) * t
Toward(mult, t) == QAdd(QInt(1), QMul(QSub(Cfg(mult), QInt(1)), t))

\* DifficultyBalancer.update(dt), dt in ms
DifficultyBalancerUpdate(b, dt) ==
    LET raw_score == BalanceScore(b.stats)
        diff == QSub(raw_score, b.smooth_score)
        rate == QMin(QInt(1), QMul(Cfg(smooth_rate), QNorm(dt, 1000)))
        smooth == QClamp(QAdd(b.smooth_score, QMul(diff, rate)))
        s == Cfg(strength)
        ease_t == QMul(QMin(QInt(1),
                            QMul(QAbs(QSub(smooth, Cfg(ease_threshold))),
                                 QNorm(100, 100 - Abs(ease_threshold)))), s)
        sharp_t == QMul(QMin(QInt(1),
                             QMul(QSub(smooth, Cfg(sharpen_threshold)),
                                  QNorm(100, 100 - sharpen_threshold))), s)
        m == IF QLess(smooth, Cfg(ease_threshold))
             THEN [DifficultyModifiersInit EXCEPT
                      !.reaction_delay_adj = QMul(Cfg(ease_reaction_delay_add), ease_t),
                      !.aggression_mult = Toward(ease_aggression_mult, ease_t),
                      !.cooldown_mult = Toward(ease_cooldown_mult, ease_t),
                      !.combo_mult = Toward(ease_combo_mult, ease_t),
                      !.accuracy_mult = Toward(ease_accuracy_mult, ease_t),
                      !.telegraph_chance = QMul(Cfg(ease_telegraph_add), ease_t)]
             ELSE IF QLess(Cfg(sharpen_threshold), smooth)
             THEN [DifficultyModifiersInit EXCEPT
                      !.reaction_delay_adj = QMul(Cfg(sharp_reaction_delay_add), sharp_t),
                      !.aggression_mult = Toward(sharp_aggression_mult, sharp_t),
                      !.cooldown_mult = Toward(sharp_cooldown_mult, sharp_t),
                      !.combo_mult = Toward(sharp_combo_mult, sharp_t),
                      !.punish_mult = Toward(sharp_punish_mult, sharp_t),
                      !.variation_boost = QMul(Cfg(sharp_variation), sharp_t),
                      !.spacing_tightness = Toward(sharp_spacing_tightness, sharp_t)]
             ELSE DifficultyModifiersInit
    IN  [b EXCEPT !.stats.total_fight_time = @ + dt,
                  !.smooth_score = smooth,
                  !.modifiers = [m EXCEPT !.balance_score = smooth]]

\* a soft reset that forgets the round history
DifficultyBalancerResetForgetting(b) == DifficultyBalancerInit

\* DifficultyBalancer.reset: a new fight, the round history kept
DifficultyBalancerReset(b) ==
    [DifficultyBalancerInit EXCEPT
        !.stats.rounds_player_won = b.stats.rounds_player_won,
        !.stats.rounds_enemy_won = b.stats.rounds_enemy_won]

\* DifficultyBalancer.full_reset
DifficultyBalancerFullReset(b) == DifficultyBalancerInit

-----------------------------------------------------------------------------
(* ai/adaptive_learning.py: AdaptiveLearning.  Confidence and the advice's   *)
(* fractions are counted in millionths (0.012 is 12000), the profile's      *)
(* scores in hundredths, distances in pixels, time in ms.  The event logs    *)
(* are not part of the record: what _analyze derives from them (the profile  *)
(* and the number of recent attacks) is an input of observe                   *)

\* LearningConfig, in millionths; the decay rate is per second
confidence_per_event == 12000
confidence_decay_rate == 2000
confidence_max == 1000000
inactivity_limit == 2000
hit_window == 1000
reanalyze_interval == 500
min_events_for_advice == 4

\* PlayerProfile(), in hundredths
PlayerProfileInit ==
    [attack_frequency |-> 50, attack_rhythm |-> 0, combo_repetition |-> 0,
     heavy_attack_ratio |-> 50, preferred_range |-> "mid",
     range_close_bias |-> 33, range_mid_bias |-> 34, range_far_bias |-> 33,
     block_after_hit |-> 0, dodge_frequency |-> 0, retreat_after_attack |-> 0,
     stamina_reckless |-> 50]

\* CounterAdvice(), in millionths; preferred_engage_dist in pixels
CounterAdviceInit ==
    [reaction_delay_adj |-> 0, punish_probability |-> 300000, feint_rate |-> 0,
     aggression_adj |-> 0, combo_complexity |-> 500000, heavy_bias |-> 0,
     preferred_engage_dist |-> 70, approach_speed_mult |-> 1000000,
     block_readiness |-> 300000, dodge_readiness |-> 100000]

\* a slip in the threshold: one event fewer is already enough
TooFewEventsOffByOne(n_events) == n_events < min_events_for_advice - 1

\* "n_events < cfg.min_events_for_advice"
TooFewEvents(n_events) == n_events < min_events_for_advice

\* AdaptiveLearning._generate_advice(p, n_events), from the advice object a it writes
\* into; a branch that assigns nothing to a field leaves a's value in it
GenerateAdvice(a, p, n_events, confidence) ==
    IF TooFewEvents(n_events) THEN CounterAdviceInit
    ELSE
    LET rhythmic == p.attack_rhythm > 60
        spam == p.attack_frequency > 70
        repeats == p.combo_repetition > 40
        heavy == p.heavy_attack_ratio > 50
        guarded == p.block_after_hit > 50
        reckless == p.stamina_reckless > 70
        delay1 == IF rhythmic THEN -50000 ELSE 0
        feint1 == IF rhythmic THEN Min(350000, p.attack_rhythm * 4000) ELSE 50000
        punish1 == IF spam THEN Min(800000, 300000 + (p.attack_frequency - 50) * 10000)
                   ELSE 300000 + p.attack_frequency * 2000
        block1 == IF spam THEN Min(700000, 300000 + p.attack_frequency * 4000) ELSE 300000
        aggr1 == IF spam THEN -100000 ELSE a.aggression_adj
        dodge1 == IF repeats THEN Min(500000, p.combo_repetition * 8000)
                  ELSE a.dodge_readiness
        feint2 == IF repeats THEN Max(feint1, p.combo_repetition * 3000) ELSE feint1
        dist1 == CASE p.preferred_range = "close" -> 90
                   [] p.preferred_range = "far" -> 55
                   [] OTHER -> a.preferred_engage_dist
        speed1 == CASE p.preferred_range = "close" -> 900000
                    [] p.preferred_range = "far" -> 1250000
                    [] OTHER -> a.approach_speed_mult
        aggr2 == CASE p.preferred_range = "close" -> Max(aggr1, 50000)
                   [] p.preferred_range = "far" -> Max(aggr1, 100000)
                   [] OTHER -> aggr1
        delay2 == IF heavy THEN Min(delay1, -30000) ELSE delay1
        dodge2 == IF heavy THEN Max(dodge1, 300000) ELSE dodge1
        bias1 == IF heavy THEN -200000 ELSE a.heavy_bias
        aggr3 == IF guarded THEN Max(aggr2, 150000) ELSE aggr2
        bias2 == IF guarded THEN Max(bias1, 250000) ELSE bias1
        feint3 == IF guarded THEN Max(feint2, 150000) ELSE feint2
        punish2 == IF reckless THEN Min(850000, punish1 + 150000) ELSE punish1
        aggr4 == IF reckless THEN Max(aggr3, 50000) ELSE aggr3
    IN  [reaction_delay_adj |-> delay2,
         punish_probability |-> punish2,
         feint_rate |-> feint3,
         aggression_adj |-> aggr4,
         combo_complexity |-> Min(1000000, 300000 + confidence \div 2
                                            + (100 - p.combo_repetition) * 2000),
         heavy_bias |-> bias2,
         preferred_engage_dist |-> dist1,
         approach_speed_mult |-> speed1,
         block_readiness |-> block1,
         dodge_readiness |-> dodge2]

\* AdaptiveLearning._analyze(now): the profile is rebuilt (p, with n_attacks recent
\* attacks in the event window) and the advice regenerated from it
Analyze(l, p, n_attacks) ==
    [l EXCEPT !.profile = p,
              !.advice = GenerateAdvice(l.advice, p, n_attacks, l.confidence)]

\* AdaptiveLearning.__init__
AdaptiveLearningInit ==
    [profile |-> PlayerProfileInit,
     advice |-> CounterAdviceInit,
     confidence |-> 0,
     player_was_attacking |-> FALSE,
     player_was_blocking |-> FALSE,
     player_was_dodging |-> FALSE,
     player_just_took_hit |-> FALSE,
     hit_cooldown |-> 0,
     inactivity_timer |-> 0,
     reanalyze_timer |-> 0]

\* a slip in the edge detection: the flag alone counts
RisingEdgeHeld(flag, was) == flag

\* "player_attacking and not self._player_was_attacking"
RisingEdge(flag, was) == flag /\ ~was

\* min(cfg.confidence_max, self._confidence + gain)
Gained(c, gain) == Min(confidence_max, c + gain)

\* AdaptiveLearning.observe(dt, now, player, enemy, distance): the opponent's three
\* flags are what it reads of the player; p and n_attacks are what the event logs
\* yield if the re-analysis timer fires in this call
AdaptiveLearningObserve(l, dt, attacking, blocking, dodging, p, n_attacks) ==
    LET attack == RisingEdge(attacking, l.player_was_attacking)
        block == RisingEdge(blocking, l.player_was_blocking)
        dodge == RisingEdge(dodging, l.player_was_dodging)
        c1 == IF attack THEN Gained(l.confidence, confidence_per_event) ELSE l.confidence
        c2 == IF block THEN Gained(c1, confidence_per_event \div 2) ELSE c1
        c3 == IF dodge THEN Gained(c2, confidence_per_event \div 2) ELSE c2
        cooldown == IF l.hit_cooldown > 0 THEN l.hit_cooldown - dt ELSE l.hit_cooldown
        inactivity == (IF attack THEN 0 ELSE l.inactivity_timer) + dt
        c4 == IF inactivity > inactivity_limit
              THEN Max(0, c3 - (confidence_decay_rate * dt) \div 1000)
              ELSE c3
        reanalyze == l.reanalyze_timer - dt
        observed ==
            [l EXCEPT !.confidence = c4,
                      !.player_was_attacking = attacking,
                      !.player_was_blocking = blocking,
                      !.player_was_dodging = dodging,
                      !.player_just_took_hit =
                          IF l.hit_cooldown > 0 /\ cooldown <= 0 THEN FALSE
                          ELSE l.player_just_took_hit,
                      !.hit_cooldown = cooldown,
                      !.inactivity_timer = inactivity,
                      !.reanalyze_timer =
                          IF reanalyze <= 0 THEN reanalyze_interval ELSE reanalyze]
    IN  IF reanalyze <= 0 THEN Analyze(observed, p, n_attacks) ELSE observed

\* AdaptiveLearning.notify_player_hit
NotifyPlayerHit(l) ==
    [l EXCEPT !.player_just_took_hit = TRUE, !.hit_cooldown = hit_window]

\* AdaptiveLearning.reset
AdaptiveLearningReset(l) == AdaptiveLearningInit

-----------------------------------------------------------------------------
(* systems/stamina_system.py: StaminaComponent, in hundredths of a point    *)

STAMINA_MAX == 10000
STAMINA_REGEN_RATE == 1800
STAMINA_REGEN_DELAY == 600
STAMINA_ATTACK_COST == 2200
STAMINA_HEAVY_ATTACK_COST == 3500

\* StaminaComponent.__init__
StaminaComponentInit == [stamina |-> STAMINA_MAX, time_since_action |-> 999000]

\* StaminaComponent.drain: refused when the stamina is short of the amount
Drain(s, amount) ==
    IF s.stamina < amount THEN s
    ELSE [stamina |-> Max(0, s.stamina - amount), time_since_action |-> 0]

\* StaminaComponent.update(dt, is_acting)
StaminaComponentUpdate(s, dt, is_acting) ==
    LET since == IF is_acting THEN 0 ELSE s.time_since_action + dt
    IN  [stamina |-> IF since >= STAMINA_REGEN_DELAY
                     THEN Min(STAMINA_MAX, s.stamina + (STAMINA_REGEN_RATE * dt) \div 1000)
                     ELSE s.stamina,
         time_since_action |-> since]

\* StaminaSystem.update(character, dt): the component's update, and a block is
\* released when the stamina is empty
StaminaSystemUpdate(e, s, dt) ==
    LET s2 == StaminaComponentUpdate(s, dt, e.anim_state = "attack" \/ e.is_blocking
                                                \/ e.is_dodging)
    IN  [e |-> IF e.is_blocking /\ s2.stamina <= 0 THEN StopBlock(e) ELSE e, s |-> s2]

-----------------------------------------------------------------------------
(* ai/combat_intent_system.py: CombatIntentSystem.  Its signals are counted  *)
(* in millionths (0.15 is 150000), the personality multipliers, the HP and   *)
(* stamina fractions and the opponent's aggression in hundredths.  The two   *)
(* damage windows are not part of the record: their totals are inputs of     *)
(* update.  A quotient is rounded down to the millionth                      *)

\* IntentConfig
optimal_range == 70
max_chase_range == 300
close_range_bonus == 350000
stamina_penalty_threshold == 30
base_intent == 150000

\* IntentConfig.personality_attack_mult, "self.personality_attack_mult.get(p, 1.0)"
PersonalityAttackMult(p) ==
    CASE p = "Berserker" -> 135
      [] p = "Duelist" -> 120
      [] p = "Coward" -> 60
      [] p = "Trickster" -> 90
      [] p = "Mage" -> 55
      [] OTHER -> 100

\* IntentConfig.personality_defense_mult
PersonalityDefenseMult(p) ==
    CASE p = "Berserker" -> 30
      [] p = "Duelist" -> 80
      [] p = "Coward" -> 120
      [] p = "Trickster" -> 70
      [] p = "Mage" -> 90
      [] OTHER -> 100

\* _clamp01
Clamp01(v) == Max(0, Min(1000000, v))

\* CombatIntentSystem.__init__
CombatIntentSystemInit(personality) ==
    [personality |-> personality, attack_intent |-> 0, aggression_level |-> 500000,
     defensive_bias |-> 300000, risk_tolerance |-> 500000,
     smooth_attack |-> 0, smooth_aggression |-> 500000]

\* the distance term of update: 1 up to the optimal range, falling to 0 at the
\* maximal chase range, with the close-range bonus below 0.6 of the optimal range
DistIntent(distance) ==
    LET curve == IF distance <= optimal_range THEN 1000000
                 ELSE IF distance < max_chase_range
                 THEN 1000000 - ((distance - optimal_range) * 1000000)
                                  \div (max_chase_range - optimal_range)
                 ELSE 0
    IN  IF distance * 10 < optimal_range * 6
        THEN Min(1000000, curve + close_range_bonus) ELSE curve

\* the stamina factor of update, in thousandths
StamMult(stamina_frac) ==
    IF stamina_frac < stamina_penalty_threshold
    THEN 500 + (500 * stamina_frac) \div stamina_penalty_threshold
    ELSE 1000

\* the attack bonus and the defense bonus of a strategy mode
StratAttackMod(mode) ==
    CASE mode = "aggressive" -> 250000
      [] mode = "defensive" -> -150000
      [] mode = "comeback" -> 300000
      [] OTHER -> 0

StratDefenseMod(mode) ==
    CASE mode = "aggressive" -> -150000
      [] mode = "defensive" -> 250000
      [] mode = "comeback" -> -100000
      [] OTHER -> 0

\* "self._smooth_x += (target - self._smooth_x) * smooth_rate", smooth_rate = 5.0 * dt
SmoothStep(smooth, target, dt) == smooth + ((target - smooth) * dt) \div 200

\* CombatIntentSystem.update(dt, now, distance, enemy_stamina_frac,
\* player_aggression, strategy_mode, enemy_hp_frac); dealt and taken are the totals
\* of the two damage windows at now
CombatIntentUpdate(i, dt, distance, stamina_frac, player_aggression, strategy_mode, hp_frac, dealt, taken) ==
    LET aggr_reaction == IF player_aggression > 60
                         THEN (player_aggression - 60) * 5000 ELSE 0
        strat_attack_mod == StratAttackMod(strategy_mode)
        atk_mult == PersonalityAttackMult(i.personality)
        exchange_bonus == IF dealt + taken > 0
                          THEN ((dealt - taken) * 150000) \div Max(1, dealt + taken)
                          ELSE 0
        desperation_boost == IF hp_frac < 35 THEN (35 - hp_frac) * 8000 ELSE 0
        raw_attack ==
            ((((base_intent + DistIntent(distance) \div 2 + exchange_bonus
                + desperation_boost + strat_attack_mod) * atk_mult) \div 100)
              * StamMult(stamina_frac)) \div 1000
        raw_aggression ==
            ((500000 + strat_attack_mod + (desperation_boost * 6) \div 10
              + exchange_bonus \div 2 - (aggr_reaction * 3) \div 10) * atk_mult) \div 100
        raw_defensive ==
            ((300000 + aggr_reaction + StratDefenseMod(strategy_mode))
             * PersonalityDefenseMult(i.personality)) \div 100
        raw_risk == hp_frac * 4000 + stamina_frac * 3000 + desperation_boost \div 2
                    + (strat_attack_mod * 3) \div 10
        smooth_attack == SmoothStep(i.smooth_attack, Clamp01(raw_attack), dt)
        smooth_aggression == SmoothStep(i.smooth_aggression, Clamp01(raw_aggression), dt)
    IN  [i EXCEPT !.smooth_attack = smooth_attack,
                  !.smooth_aggression = smooth_aggression,
                  !.attack_intent = Clamp01(smooth_attack),
                  !.aggression_level = Clamp01(smooth_aggression),
                  !.defensive_bias = Clamp01(raw_defensive),
                  !.risk_tolerance = Clamp01(raw_risk)]

-----------------------------------------------------------------------------
(* ai/aggression_system.py: AggressionSystem and its PunishDetector.  The    *)
(* match-flow tracker is not part of the record: its flow ratio, in          *)
(* hundredths, is an input of update.  The random strafe direction and the   *)
(* combo-chain countdown, which no decision of the brain reads, are left out *)

\* AggressionConfig
punish_window_after_whiff == 250
spam_counter_threshold == 4
\* the span in which PunishDetector.update keeps an opponent's attack, ms
SpamWindow == 2000

\* PunishDetector.__init__
PunishDetectorInit ==
    [player_was_attacking |-> FALSE, whiff_timer |-> 0, punish_ready |-> FALSE,
     recent_player_attacks |-> <<>>, player_is_spamming |-> FALSE]

\* the times of a list that are less than the spam window before now
Recent(times, t) == SelectSeq(times, LAMBDA x : t - x < SpamWindow)

\* PunishDetector.update(dt, now, player_is_attacking, distance, attack_range),
\* statement by statement: the whiff detection, the assignment of
\* _player_was_attacking, the whiff timer, and then the spam detection, which reads
\* _player_was_attacking after that assignment
PunishDetectorUpdate(p, dt, t, player_is_attacking, distance, attack_range) ==
    LET whiffed == p.player_was_attacking /\ ~player_is_attacking
                   /\ distance * 10 < attack_range * 18
        p1 == IF whiffed
              THEN [p EXCEPT !.whiff_timer = punish_window_after_whiff,
                             !.punish_ready = TRUE]
              ELSE p
        p2 == [p1 EXCEPT !.player_was_attacking = player_is_attacking]
        p3 == IF p2.whiff_timer > 0
              THEN [p2 EXCEPT !.whiff_timer = @ - dt,
                              !.punish_ready = IF p2.whiff_timer - dt <= 0 THEN FALSE
                                               ELSE @]
              ELSE p2
        p4 == IF player_is_attacking /\ ~p3.player_was_attacking
              THEN [p3 EXCEPT !.recent_player_attacks = Append(@, t)]
              ELSE p3
        kept == Recent(p4.recent_player_attacks, t)
    IN  [p4 EXCEPT !.recent_player_attacks = kept,
                   !.player_is_spamming = Len(kept) >= spam_counter_threshold]

\* PunishDetector.reset
PunishDetectorReset(p) == PunishDetectorInit

\* AggressionSystem.__init__
AggressionSystemInit == [tempo_mode |-> "balanced", punish |-> PunishDetectorInit]

\* the tempo mode AggressionSystem.update selects
TempoMode(hp_frac, flow_ratio, aggression_level) ==
    IF hp_frac < 35 THEN "comeback"
    ELSE IF flow_ratio < -30 THEN "aggressive"
    ELSE IF flow_ratio > 30 THEN "defensive"
    ELSE IF aggression_level > 650000 THEN "aggressive"
    ELSE IF aggression_level < 350000 THEN "defensive"
    ELSE "balanced"

\* AggressionSystem.update(dt, now, enemy_hp_frac, attack_intent, aggression_level,
\* player_is_attacking, distance, attack_range)
AggressionSystemUpdate(a, dt, t, hp_frac, flow_ratio, aggression_level, player_is_attacking, distance, attack_range) ==
    [a EXCEPT !.tempo_mode = TempoMode(hp_frac, flow_ratio, aggression_level),
              !.punish = PunishDetectorUpdate(@, dt, t, player_is_attacking,
                                              distance, attack_range)]

\* AIBrain._decide_state: "intent_threshold = 0.35", divided by the phase's, the
\* balancer's and the halved style's aggression multiplier, each floored at 0.5
\* (hundredths, hundredths, thousandths)
IntentThreshold(pm_aggr, dfm_aggr, sm_aggr) ==
    (((((350000 * 100) \div Max(50, pm_aggr)) * 100) \div Max(50, dfm_aggr)) * 1000)
        \div Max(500, sm_aggr \div 2 + 500)

\* "intent_high = self.intent.attack_intent > intent_threshold", forced by
\* punish.player_is_spamming
IntentHigh(i, a, threshold) == a.punish.player_is_spamming \/ i.attack_intent > threshold

-----------------------------------------------------------------------------
(* ai/ai_core.py: AIBrain                                                  *)

\* one representative per behaviour class of PERSONALITIES: the Duelist (reactive
\* module, faster think interval), the Mage (uses_projectiles) and the rest
Personalities == {"Berserker", "Duelist", "Mage"}

IsDuelist(b) == b.personality = "Duelist"
UsesProjectiles(b) == b.personality = "Mage"
BaseThink(b) == IF IsDuelist(b) THEN DUELIST_THINK_INTERVAL ELSE base_think_default

\* AIBrain.__init__ (fields the FSM reads; logging, movement remainders and the
\* never-read last_attack_time are left out)
AIBrainInit(p) ==
    [personality |-> p,
     state |-> "chase",
     cooldown_timer |-> 0,
     last_attack_type |-> "none",
     pending_damage |-> 0,
     pending_attack_type |-> "quick",
     pending_projectile |-> FALSE,
     last_projectile_time |-> 0,
     retreat_start |-> 0,
     block_timer |-> 0,
     idle_frames |-> 0,
     decision_timer |-> 0,
     feint_timer |-> 0,
     risk_combo_remaining |-> 0,
     event_phase_transition |-> FALSE,
     event_rage_entered |-> FALSE,
     event_perfect_counter |-> FALSE,
     duelist |-> DuelistInit]

PassiveStates == {"attack", "block_wait", "idle", "feint"}

\* ---- values the other sub-systems feed the FSM, each drawn where the code reads it

\* diff_mods.reaction_delay_adj + learner.advice.reaction_delay_adj
ThinkAdjSet == {0}
\* what _execute_attack leaves in _cooldown_timer: max(0.15, dynamic_cd), buff-modified
CooldownSet == {150}
\* style x difficulty x desperation cooldown multipliers, each floored at 0.3
CdOtherMultSet == {100}
\* dfm.accuracy_mult
AccuracySet == {80, 100}
\* bm.spacing_offset + sm.spacing_offset + (advice.preferred_engage_dist - 70) * 0.3
SpacingSet == {-30, 0, 30}
\* learner.confidence
BrainConfidenceSet == {0, 35}

\* effective_think = max(0.05, _base_think + adjustments)
ThinkTimes(b) == {Max(50, BaseThink(b) + a) : a \in ThinkAdjSet}

\* a world is the brain, the enemy, the phase system and tr, the path the update has
\* taken through update(): whether the risk combo chain or the punish window forced
\* the attack state, whether the feint timer ran out, whether _decide_state was
\* called, with which think time, from which FSM state and enemy, and what it left,
\* how its block / dodge reaction ended, whether the enemy could act with the cooldown
\* elapsed at the decision gate, whether _execute_attack was called by _tick_state and
\* whether it started a swing
NoTrace ==
    [forced |-> FALSE, feint_expired |-> FALSE, decided |-> FALSE, reaction |-> "none",
     think |-> 0, state_in |-> "none", state_out |-> "none", unmoved |-> TRUE,
     ready |-> FALSE, executed |-> FALSE, committed |-> FALSE]

SetState(w, s) == [w EXCEPT !.b.state = s]

\* AIBrain._begin_retreat (the direction is movement only)
BeginRetreat(w, t) ==
    [w EXCEPT !.b.state = "retreat", !.b.retreat_start = t]

\* AIBrain._try_dodge: refused for lack of stamina, or enemy.start_dodge
TryDodge(w) == {[w EXCEPT !.e = e2] : e2 \in StartDodge(w.e)}

\* the post-attack retreat roll of _execute_attack: the rage override sets the chance
\* to 0.0, and a heavy attack then adds 0.2 to it
RetreatRolls(hp, attack) ==
    IF RageActive(hp) /\ attack = "quick" THEN {FALSE} ELSE BOOLEAN

\* damage of the chosen attack, int(damage * DUELIST_DAMAGE_MULT) for the Duelist
AttackDamage(b, attack) ==
    LET base == IF attack = "quick" THEN ENEMY_QUICK_DAMAGE ELSE ENEMY_HEAVY_DAMAGE
    IN  IF IsDuelist(b) THEN Scaled(base, DUELIST_DAMAGE_MULT) ELSE base

\* the range check at the end of _execute_attack: dist > reach * accuracy_mult
OutOfReach(attack, dist, acc) ==
    LET reach == IF attack = "quick" THEN ENEMY_QUICK_RANGE ELSE ENEMY_HEAVY_RANGE
    IN  dist * 100 > reach * acc

\* _execute_attack past the stamina gate: cooldown, risk-combo countdown, swing,
\* retreat-or-chase, range check
Committed(w, attack, dist, t) ==
    {[w |-> LET c == [w EXCEPT !.b.cooldown_timer = cd,
                                !.b.risk_combo_remaining = IF @ > 0 THEN @ - 1 ELSE @,
                                !.b.last_attack_type = attack,
                                !.e = StartAttack(@)]
            IN  IF retreat THEN BeginRetreat(c, t) ELSE SetState(c, "chase"),
      dmg |-> IF OutOfReach(attack, dist, acc) THEN 0 ELSE AttackDamage(w.b, attack)] :
        cd \in CooldownSet, retreat \in RetreatRolls(w.e.hp, attack), acc \in AccuracySet}

\* _execute_attack once the attack type is picked, the stamina unknown: refused by the
\* stamina gate, or committed
CommitAttack(w, attack, dist, t) ==
    {[w |-> w, dmg |-> 0]} \cup Committed(w, attack, dist, t)

\* a slip in the stamina gate: nothing is needed
MinNeededNothing(attack, hp) == 0

\* min_needed = stam_cost * min_frac, min_frac 0.5 or, in rage,
\* max(0.1, 0.5 - dm.rage_stamina_ignore)
MinNeeded(attack, hp) ==
    LET stam_cost == IF attack = "quick" THEN STAMINA_ATTACK_COST
                     ELSE STAMINA_HEAVY_ATTACK_COST
        min_frac == IF RageActive(hp) THEN Max(10, 50 - rage_stamina_ignore) ELSE 50
    IN  (stam_cost * min_frac) \div 100

\* the stamina check of _execute_attack on the component s: refused below min_needed,
\* else min(stam_cost, available) is drained and the attack committed
GatedAttack(w, s, attack, dist, t) ==
    LET stam_cost == IF attack = "quick" THEN STAMINA_ATTACK_COST
                     ELSE STAMINA_HEAVY_ATTACK_COST
    IN  IF s.stamina < MinNeeded(attack, w.e.hp)
        THEN {[w |-> w, dmg |-> 0, s |-> s, attack |-> attack]}
        ELSE {[w |-> r.w, dmg |-> r.dmg, s |-> Drain(s, Min(stam_cost, s.stamina)),
               attack |-> attack] : r \in Committed(w, attack, dist, t)}

\* AIBrain._execute_attack with the enemy's stamina component s: the worlds and the
\* component it can leave, the damage it returns and the attack type it picked
ExecuteAttackOn(w, s, dist, t) ==
    IF ~CanAct(w.e) \/ w.e.anim_state = "attack" \/ w.b.cooldown_timer > 0
    THEN {[w |-> w, dmg |-> 0, s |-> s, attack |-> "none"]}
    ELSE UNION {GatedAttack(w, s, attack, dist, t) : attack \in {"quick", "heavy"}}

\* AIBrain._execute_attack with the stamina component s and the style system st:
\* styles.record_action(attack) follows the pick of the attack type and precedes the
\* stamina check (should_vary_action only swaps the weights of the pick, which can
\* give either type)
ExecuteAttackRecorded(w, s, st, dist, t) ==
    {[w |-> r.w, dmg |-> r.dmg, s |-> r.s, attack |-> r.attack,
      styles |-> IF r.attack = "none" THEN st ELSE RecordAction(st, r.attack)] :
        r \in ExecuteAttackOn(w, s, dist, t)}

\* AIBrain._execute_attack: the worlds it can leave and the damage it returns
ExecuteAttack(w, dist, t) ==
    IF ~CanAct(w.e) \/ w.e.anim_state = "attack" \/ w.b.cooldown_timer > 0
    THEN {[w |-> w, dmg |-> 0]}
    ELSE UNION {CommitAttack(w, attack, dist, t) : attack \in {"quick", "heavy"}}

\* a slip in the risk combo check: a new risk combo is rolled while one is running
AfterAttackChaining(r) ==
    IF r.dmg > 0
    THEN LET w1 == [r.w EXCEPT !.b.pending_damage = r.dmg,
                               !.b.pending_attack_type = r.w.b.last_attack_type]
         IN  {w1} \cup
             (IF DespActive(w1.e.hp)
              THEN {[w1 EXCEPT !.b.risk_combo_remaining = risk_combo_hits - 1]}
              ELSE {})
    ELSE {SetState(r.w, "chase")}

\* the "attack" branch of _tick_state after _execute_attack returned
AfterAttack(r) ==
    IF r.dmg > 0
    THEN LET w1 == [r.w EXCEPT !.b.pending_damage = r.dmg,
                               !.b.pending_attack_type = r.w.b.last_attack_type]
         IN  {w1} \cup
             (IF w1.b.risk_combo_remaining <= 0 /\ DespActive(w1.e.hp)
              THEN {[w1 EXCEPT !.b.risk_combo_remaining = risk_combo_hits - 1]}
              ELSE {})
    ELSE {SetState(r.w, "chase")}

\* a slip in the block release: the FSM is parked in "idle"
TickBlockWaitIdling(w, dt, player_is_attacking) ==
    LET timer == w.b.block_timer + dt
        w1 == [w EXCEPT !.b.block_timer = timer]
    IN  IF ~player_is_attacking
        THEN [w1 EXCEPT !.e = StopBlock(@),
                        !.b.duelist = IF IsDuelist(w.b) THEN DuelistOnBlockSuccess(@) ELSE @,
                        !.b.state = "idle"]
        ELSE IF timer >= max_block_duration
        THEN [w1 EXCEPT !.e = StopBlock(@), !.b.state = "idle"]
        ELSE w1

\* the block_wait branch of _tick_state
TickBlockWait(w, dt, player_is_attacking) ==
    LET timer == w.b.block_timer + dt
        w1 == [w EXCEPT !.b.block_timer = timer]
    IN  IF ~player_is_attacking
        THEN [w1 EXCEPT !.e = StopBlock(@),
                        !.b.duelist = IF IsDuelist(w.b) THEN DuelistOnBlockSuccess(@) ELSE @,
                        !.b.state = "chase"]
        ELSE IF timer >= max_block_duration
        THEN [w1 EXCEPT !.e = StopBlock(@), !.b.state = "chase"]
        ELSE w1

\* AIBrain._try_projectile
TryProjectile(w, t) ==
    IF t - w.b.last_projectile_time < PROJECTILE_COOLDOWN THEN w
    ELSE IF ~CanAct(w.e) THEN w
    ELSE [w EXCEPT !.b.pending_projectile = TRUE, !.b.last_projectile_time = t]

\* AIBrain._tick_state: execute the current state (movement leaves no trace here)
TickState(w, f, t) ==
    LET s == w.b.state
        ticked ==
          IF s \in {"chase", "strafe", "feint"} THEN {w}
          ELSE IF s = "retreat"
          THEN {IF t - w.b.retreat_start >= ENEMY_RETREAT_DURATION
                THEN SetState(w, "chase") ELSE w}
          ELSE IF s = "block_wait" THEN {TickBlockWait(w, f.dt, f.player_is_attacking)}
          ELSE IF s = "attack"
          THEN IF w.e.anim_state = "attack" THEN {w}
               ELSE UNION {AfterAttack([r EXCEPT !.w.tr.executed = TRUE,
                                                  !.w.tr.committed =
                                                       r.w.e.anim_state = "attack"]) :
                             r \in ExecuteAttack(w, f.dist, t)}
          ELSE {SetState(w, "chase")}
    IN  {IF UsesProjectiles(w.b) /\ f.dist * 10 > ATTACK_RANGE * 15
         THEN TryProjectile(w1, t) ELSE w1 : w1 \in ticked}

\* the opponent attacks within 1.4 x ATTACK_RANGE
InBlockRange(dist, player_is_attacking) ==
    player_is_attacking /\ dist * 10 < ATTACK_RANGE * 14

\* the block roll of _decide_state passed: enemy.start_block and "block_wait"
BlockReaction(w, think) ==
    [w EXCEPT !.e = IF @.is_blocking THEN @ ELSE StartBlock(@),
              !.b.block_timer = IF w.e.is_blocking THEN @ ELSE 0,
              !.b.state = "block_wait",
              !.b.decision_timer = think + 80]

\* a slip in the block reaction: the rage override of the block chance is not read
DefensiveReactionsBlockingInRage(w, think) ==
    {[w EXCEPT !.b.decision_timer = think + 100, !.tr.reaction = "telegraph"]}
    \cup {[w1 EXCEPT !.b.decision_timer = think, !.tr.reaction = "dodge"] :
             w1 \in TryDodge(w)}
    \cup {[BlockReaction(w, think) EXCEPT !.tr.reaction = "block"]}

\* a slip in the block / dodge reaction: the telegraph does not end the decision, the
\* block roll follows it
DefensiveReactionsRollingOn(w, think) ==
    {[BlockReaction(w, think) EXCEPT !.b.decision_timer = think + 100,
                                     !.tr.reaction = "telegraph"]}
    \cup {[w1 EXCEPT !.b.decision_timer = think, !.tr.reaction = "dodge"] :
             w1 \in TryDodge(w)}
    \cup (IF RageActive(w.e.hp) THEN {}
          ELSE {[BlockReaction(w, think) EXCEPT !.tr.reaction = "block"]})

\* the block / dodge reaction of _decide_state, taken when the opponent attacks within
\* 1.4 x ATTACK_RANGE: the worlds in which the decision ends there (telegraph, dodge,
\* block); the rage override makes the block chance 0.0, so the block roll cannot pass
DefensiveReactions(w, think) ==
    LET telegraph == {[w EXCEPT !.b.decision_timer = think + 100,
                                !.tr.reaction = "telegraph"]}
        dodge == {[w1 EXCEPT !.b.decision_timer = think, !.tr.reaction = "dodge"] :
                    w1 \in TryDodge(w)}
        block == IF RageActive(w.e.hp) THEN {}
                 ELSE {[BlockReaction(w, think) EXCEPT !.tr.reaction = "block"]}
    IN  telegraph \cup dodge \cup block

\* the rest of _decide_state: release a held block, then attack / feint / retreat /
\* strafe / chase from range, cooldown, swing, intent and stamina; f.intent_high is
\* the set of values intent_high can take in this frame
AttackDecision(w, f, t, think) ==
    LET w1 == IF w.e.is_blocking /\ ~f.player_is_attacking
              THEN [w EXCEPT !.e = StopBlock(@),
                             !.b.duelist = IF IsDuelist(w.b) THEN DuelistOnBlockSuccess(@)
                                           ELSE @]
              ELSE w
        cooldown_ready == w1.b.cooldown_timer <= 0
        not_swinging == w1.e.anim_state # "attack"
        feint == [w1 EXCEPT !.b.state = "feint",
                            !.b.feint_timer = feint_cancel_window,
                            !.e = StartAttack(@)]
        low_stamina == IF RageActive(w1.e.hp) THEN SetState(w1, "attack")
                       ELSE BeginRetreat(w1, t)
        Chosen(in_range, intent_high) ==
            IF in_range /\ cooldown_ready /\ not_swinging /\ intent_high
            THEN {feint, SetState(w1, "attack"), low_stamina}
            ELSE IF in_range /\ ~cooldown_ready THEN {SetState(w1, "strafe")}
            ELSE {SetState(w1, "chase")}
    IN  {[w2 EXCEPT !.b.decision_timer = think] :
           w2 \in UNION {Chosen(f.dist <= ENEMY_HEAVY_RANGE + sp, ih) :
                           sp \in SpacingSet, ih \in f.intent_high}}

\* AIBrain._decide_state
DecideState(w, f, t) ==
    IF w.b.state = "retreat" /\ t - w.b.retreat_start < ENEMY_RETREAT_DURATION THEN {w}
    ELSE IF w.b.state = "feint" THEN {w}
    ELSE IF ~CanAct(w.e)
    THEN {IF w.e.is_dodging THEN w ELSE SetState(w, "chase")}
    ELSE UNION {
           LET w1 == [w EXCEPT !.tr.think = think]
           IN  (IF InBlockRange(f.dist, f.player_is_attacking)
                THEN DefensiveReactions(w1, think) ELSE {})
               \cup AttackDecision(w1, f, t, think) : think \in ThinkTimes(w.b)}

\* "if self.state == 'stunned': self.state = 'chase'"
ClearStun(s) == IF s = "stunned" THEN "chase" ELSE s

\* sub-system updates of the frame that the FSM reads: the phase system, and the
\* cinematic event flags cleared and then raised from phase_mods.just_transitioned
SubSystems(w, dt) ==
    {LET p == PhaseSystemUpdate(w.ps, dt, w.e.hp, c, 0)
     IN  [w EXCEPT !.ps = p,
                   !.b.state = ClearStun(@),
                   !.b.event_phase_transition = p.modifiers.just_transitioned,
                   !.b.event_rage_entered =
                        p.modifiers.just_transitioned /\ p.modifiers.phase = RAGE,
                   !.b.event_perfect_counter = FALSE] : c \in BrainConfidenceSet}

\* the cooldown tick: dt * cd_speed, cd_speed the inverse product of the cooldown
\* multipliers, each floored at 0.3
CooldownTick(w, dt) ==
    IF w.b.cooldown_timer > 0
    THEN {[w EXCEPT !.b.cooldown_timer =
              Max(0, @ - (dt * 10000) \div (Max(30, w.ps.modifiers.cooldown_mult) * m))] :
            m \in CdOtherMultSet}
    ELSE {w}

\* a slip in the feint timer tick: at the expiry the state is left as it is
FeintTickHolding(w, dt) ==
    IF w.b.state = "feint"
    THEN [w EXCEPT !.b.feint_timer = @ - dt,
                   !.tr.feint_expired = w.b.feint_timer - dt <= 0]
    ELSE w

\* the feint timer tick
FeintTick(w, dt) ==
    IF w.b.state = "feint"
    THEN LET t2 == w.b.feint_timer - dt
         IN  IF t2 <= 0
             THEN [w EXCEPT !.b.feint_timer = t2, !.b.state = "attack",
                            !.b.decision_timer = 0, !.tr.feint_expired = TRUE]
             ELSE [w EXCEPT !.b.feint_timer = t2]
    ELSE w

\* the risk combo chain
RiskComboChain(w, dist) ==
    IF w.b.risk_combo_remaining > 0 /\ w.b.cooldown_timer <= 0
       /\ CanAct(w.e) /\ dist <= ENEMY_HEAVY_RANGE
    THEN [w EXCEPT !.b.state = "attack", !.b.decision_timer = 0, !.tr.forced = TRUE]
    ELSE w

\* a counter or combo strike of _try_duelist_reactive
ReactiveStrike(w, dmg, kind) ==
    [w EXCEPT !.b.pending_damage = Scaled(dmg, DUELIST_DAMAGE_MULT),
              !.b.pending_attack_type = kind,
              !.e = StartAttack(@),
              !.b.decision_timer = BaseThink(w.b),
              !.b.idle_frames = 0]

\* duelist.update followed by AIBrain._try_duelist_reactive:
\* [w |-> the world after it, acted |-> its return value]
DuelistReactive(w, f) ==
    LET d1 == DuelistUpdate(w.b.duelist, f.dt, f.player_is_attacking, f.dist)
        counter_dmg == IF d1.counter_ready THEN DUELIST_COUNTER_DAMAGE ELSE 0
        d2 == IF d1.counter_ready
              THEN [d1 EXCEPT !.counter_ready = FALSE, !.counter_window_timer = 0]
              ELSE d1
        w2 == [w EXCEPT !.b.duelist = d2]
        free == CanAct(w.e) /\ w.e.anim_state # "attack"
        combo_ok == d2.combo_queued /\ d2.combo_timer <= 0
        combo_dmg == IF combo_ok THEN d2.combo_damage ELSE 0
        d3 == IF combo_ok THEN [d2 EXCEPT !.combo_queued = FALSE, !.combo_damage = 0]
              ELSE d2
        w3 == [w EXCEPT !.b.duelist = d3]
    IN  IF counter_dmg > 0 /\ free
        THEN [w |-> ReactiveStrike(w2, counter_dmg, "counter"), acted |-> TRUE]
        ELSE IF combo_dmg > 0 /\ free
        THEN [w |-> ReactiveStrike(w3, combo_dmg, "combo"), acted |-> TRUE]
        ELSE IF d3.punish_ready /\ CanAct(w.e) /\ w.b.cooldown_timer <= 0
        THEN [w |-> [w3 EXCEPT !.b.state = "attack", !.b.decision_timer = 0],
              acted |-> FALSE]
        ELSE [w |-> w3, acted |-> FALSE]

\* the punish window; f.punish_ready is the set of values
\* aggression.punish.punish_ready can have in this frame
PunishWindow(w, f) ==
    {IF punish_ready /\ CanAct(w.e) /\ w.b.cooldown_timer <= 0
        /\ f.dist <= ENEMY_HEAVY_RANGE
     THEN [w EXCEPT !.b.state = "attack", !.b.decision_timer = 0, !.tr.forced = TRUE]
     ELSE w : punish_ready \in f.punish_ready}

\* the idle watchdog at the end of update
Watchdog(w) ==
    LET n == IF w.b.state \in PassiveStates THEN w.b.idle_frames + 1 ELSE 0
    IN  IF n >= IDLE_LIMIT
        THEN [w EXCEPT !.e = IF @.is_blocking THEN StopBlock(@) ELSE @,
                       !.b.state = "chase", !.b.idle_frames = 0]
        ELSE [w EXCEPT !.b.idle_frames = n]

\* the decision gate and what follows it: tick only while the decision timer runs,
\* else decide, tick and run the watchdog
DecisionGate(w, f, t) ==
    LET w1 == [w EXCEPT !.b.decision_timer = @ - f.dt]
    IN  IF w1.b.decision_timer > 0
        THEN TickState(w1, f, t)
        ELSE LET w2 == [w1 EXCEPT !.tr.decided = TRUE, !.tr.state_in = w1.b.state,
                                  !.tr.ready = CanAct(w1.e) /\ w1.b.cooldown_timer <= 0]
                 decided == {[w3 EXCEPT !.tr.state_out = w3.b.state,
                                        !.tr.unmoved = (w3.e = w1.e)] :
                               w3 \in DecideState(w2, f, t)}
             IN  {Watchdog(w4) : w4 \in UNION {TickState(w3, f, t) : w3 \in decided}}

\* update() for an enemy that is alive and not stunned (from line 198 on)
ActingFrame(w, f, t) ==
    LET afterTimers ==
            {RiskComboChain(FeintTick(w2, f.dt), f.dist) :
               w2 \in UNION {CooldownTick(w1, f.dt) : w1 \in SubSystems(w, f.dt)}}
        Rest(w3) == UNION {DecisionGate(w4, f, t) : w4 \in PunishWindow(w3, f)}
        AfterDuelist(w3) ==
            IF IsDuelist(w3.b)
            THEN LET r == DuelistReactive(w3, f)
                 IN  IF r.acted THEN {r.w} ELSE Rest(r.w)
            ELSE Rest(w3)
    IN  UNION {AfterDuelist(w3) : w3 \in afterTimers}

\* a slip in the stun guard: the one-frame flags are cleared before the early return
StunnedFrameClearingFlags(w) ==
    {[w EXCEPT !.b.state = "stunned", !.b.event_phase_transition = FALSE,
               !.b.event_rage_entered = FALSE, !.b.event_perfect_counter = FALSE]}

\* a slip in the stun guard: the frame is skipped like a dead one
StunnedFrameSkipped(w) == {w}

\* update() for a stunned enemy: "self.state = 'stunned'; return"
StunnedFrame(w) == {SetState(w, "stunned")}

\* what update() takes the enemy's condition to be
FrameCondition(e) ==
    IF ~Alive(e) \/ e.anim_state = "death" THEN "dead"
    ELSE IF e.is_stunned THEN "stunned"
    ELSE "acting"

\* AIBrain.update(enemy, player, dt): the worlds one call can leave
AIBrainUpdate(w, f, t) ==
    IF FrameCondition(w.e) = "dead" THEN {w}
    ELSE IF FrameCondition(w.e) = "stunned" THEN StunnedFrame(w)
    ELSE ActingFrame(w, f, t)

\* a slip in get_pending_damage: the buffer is left as it is
GetPendingDamageKeeping(b) ==
    [b EXCEPT !.last_attack_type = IF b.pending_damage > 0 THEN b.pending_attack_type ELSE @]

\* what get_pending_damage and get_pending_projectile return
PendingDamageReturned(b) == b.pending_damage
PendingProjectileReturned(b) == b.pending_projectile

\* AIBrain.get_pending_damage
GetPendingDamageOf(b) ==
    [b EXCEPT !.pending_damage = 0,
              !.last_attack_type = IF b.pending_damage > 0 THEN b.pending_attack_type ELSE @]

\* AIBrain.get_pending_projectile
GetPendingProjectileOf(b) == [b EXCEPT !.pending_projectile = FALSE]

\* AIBrain.reset (the decision and block timers, the retreat start, the pending
\* projectile and the attack-type fields are not touched by it)
AIBrainReset(b) ==
    [b EXCEPT !.state = "chase", !.cooldown_timer = 0, !.pending_damage = 0,
              !.idle_frames = 0, !.feint_timer = 0, !.risk_combo_remaining = 0,
              !.event_phase_transition = FALSE, !.event_rage_entered = FALSE,
              !.event_perfect_counter = FALSE,
              !.duelist = DuelistInit]

-----------------------------------------------------------------------------
(* SpecPhase: a PhaseSystem fed arbitrary frames                           *)

\* frame lengths; each divides ForcedCounterTime
PhaseDtSet == {500, 1000, 2500}
HpLevels == {12, 13, 30, 31, 100}
ConfidenceLevels == {0, 34, 35}
FlowLevels == {-100, 100}

\* the simulated fight is cut off after this much time (ms)
MaxFightTime == 11000

\* what the PhaseSystem held when the last operation started
PhaseSnapshot(s) ==
    [phase |-> s.phase, phase_timer |-> s.phase_timer, fight_timer |-> s.fight_timer]

\* last.calm: every update since construction or the last reset had HP 1.0 and confidence 0
NoOp ==
    [op |-> "init", dt |-> 0, hp |-> 100, confidence |-> 0,
     before |-> PhaseSnapshot(PhaseSystemInit), calm |-> TRUE]

\* hist: the last AIBrain operation; for an update, the condition of the enemy it
\* found, whether event_phase_transition was up when it started, whether it was the
\* first update after a stun, the clock it read (t),
\* and passive_run, the number of consecutive updates of an acting enemy that ended in
\* a passive state (counted up to IDLE_LIMIT + 1)
NoFrame ==
    [op |-> "init", cond |-> "none", flag_before |-> FALSE, stun_cleared |-> FALSE,
     t |-> 0, passive_run |-> 0, committed |-> FALSE]

\* the sub-system objects as constructed
UnitsParked ==
    /\ desp = DesperationModeInit
    /\ styles = AttackStyleSystemInit(2, <<"Tactician", "Mirror">>, <<100, 100>>, 0)
    /\ balancer = DifficultyBalancerInit
    /\ learner = AdaptiveLearningInit
    /\ intent = CombatIntentSystemInit("Berserker")
    /\ aggression = AggressionSystemInit
    /\ stamina = StaminaComponentInit

\* the brain, the enemy and the clock are parked in SpecPhase
Parked == <<brain, enemy, now, hist, units>>

InitPhase ==
    /\ ps = PhaseSystemInit
    /\ last = NoOp
    /\ brain = AIBrainInit("Berserker")
    /\ enemy = EnemyInit
    /\ now = 0
    /\ hist = NoFrame
    /\ UnitsParked

PhaseUpdate ==
    \E dt \in PhaseDtSet, hp \in HpLevels, c \in ConfidenceLevels, fl \in FlowLevels :
        /\ ps.fight_timer + dt <= MaxFightTime
        /\ ps' = PhaseSystemUpdate(ps, dt, hp, c, fl)
        /\ last' = [op |-> "update", dt |-> dt, hp |-> hp, confidence |-> c,
                    before |-> PhaseSnapshot(ps),
                    calm |-> (last.calm /\ hp = 100 /\ c = 0)]
        /\ UNCHANGED Parked

PhaseReset ==
    /\ ps' = PhaseSystemReset(ps)
    /\ last' = [NoOp EXCEPT !.op = "reset", !.before = PhaseSnapshot(ps)]
    /\ UNCHANGED Parked

NextPhaseSpec == PhaseUpdate \/ PhaseReset

SpecPhase == InitPhase /\ [][NextPhaseSpec]_vars

-----------------------------------------------------------------------------
(* Spec: the brain driving an enemy, frame by frame                        *)

\* frame length (20 fps), distances to the opponent, HP fractions of the enemy
DtSet == {100}
DistSet == {50, 100, 150}
EnemyHpLevels == {0, 12, 29, 100}

\* pygame.time.get_ticks() when the fight starts, and the simulated time after it (ms)
StartTicks == 2000
MaxElapsed == 400

World == [b |-> brain, e |-> enemy, ps |-> ps, tr |-> NoTrace]

Init ==
    /\ \E p \in Personalities : brain = AIBrainInit(p)
    /\ enemy = EnemyInit
    /\ ps = PhaseSystemInit
    /\ now = StartTicks
    /\ hist = NoFrame
    /\ UnitsParked
    /\ last = NoOp

\* The main loop runs a frame in a fixed order: the opponent's attack input, then
\* Enemy.update (regeneration, AIBrain.update, update_animation), then the collection of
\* the brain's pending damage and pending projectile.  hist.op is the last step taken.
\* A frame has the opponent's hit or a regeneration tick, not both: regeneration needs
\* the opponent idle for ENEMY_REGEN_IDLE_MS.
FrameStart == {"init", "projectile", "reset"}

\* CombatSystem.player_attack -> Character.take_damage on the enemy: refused while the
\* enemy dodges; HP drops to a lower level; death or hurt animation
PlayerAttack ==
    \E hp \in EnemyHpLevels :
        /\ hist.op \in FrameStart
        /\ ~enemy.is_dodging
        /\ hp < enemy.hp
        /\ enemy' = [enemy EXCEPT !.hp = hp,
                                  !.anim_state = IF hp <= 0 THEN "death"
                                                 ELSE IF @ # "death" THEN "hurt" ELSE @]
        /\ hist' = [hist EXCEPT !.op = "player"]
        /\ UNCHANGED <<ps, last, brain, now, units>>

\* Enemy._try_regenerate: HP rises by 10-20 % of the maximum, up to the regeneration
\* cap; refused while the FSM state is "attack" (there is no liveness check in it)
Regenerate ==
    \E hp \in EnemyHpLevels :
        /\ hist.op \in FrameStart
        /\ brain.state # "attack"
        /\ enemy.hp < ENEMY_REGEN_CAP_PCT
        /\ hp >= enemy.hp + 10 /\ hp <= enemy.hp + 20 /\ hp <= ENEMY_REGEN_CAP_PCT
        /\ enemy' = [enemy EXCEPT !.hp = hp]
        /\ hist' = [hist EXCEPT !.op = "regen"]
        /\ UNCHANGED <<ps, last, brain, now, units>>

\* AIBrain.update(enemy, player, dt), called once per frame by Enemy.update, in a
\* fight simulated for the given time
UpdateWithin(elapsed) ==
    \E dt \in DtSet, dist \in DistSet, pa \in BOOLEAN :
        /\ hist.op \in FrameStart \cup {"player", "regen"}
        /\ now + dt <= StartTicks + elapsed
        /\ \E w \in AIBrainUpdate(World,
                       [dt |-> dt, dist |-> dist, player_is_attacking |-> pa,
                        intent_high |-> BOOLEAN, punish_ready |-> BOOLEAN], now) :
              /\ brain' = w.b
              /\ enemy' = w.e
              /\ ps' = w.ps
              /\ hist' = [op |-> "update", cond |-> FrameCondition(enemy),
                          flag_before |-> brain.event_phase_transition,
                          stun_cleared |-> (brain.state = "stunned"
                                            /\ FrameCondition(enemy) = "acting"),
                          t |-> now,
                          passive_run |->
                              IF FrameCondition(enemy) = "acting"
                                 /\ w.b.state \in PassiveStates
                              THEN IF hist.passive_run > IDLE_LIMIT THEN hist.passive_run
                                   ELSE hist.passive_run + 1
                              ELSE 0,
                          committed |-> w.tr.committed]
        /\ now' = now + dt
        /\ UNCHANGED <<last, units>>

BrainUpdate == UpdateWithin(MaxElapsed)

\* Character.update_animation, at the end of Enemy.update: the stun timer, the dodge
\* timer and the hurt / attack animation may each run out in this frame
UpdateAnimation ==
    \E stun_ends, dodge_ends, anim_ends \in BOOLEAN :
        /\ hist.op = "update"
        /\ enemy' = [enemy EXCEPT
                        !.is_stunned = @ /\ ~stun_ends,
                        !.is_dodging = @ /\ ~dodge_ends,
                        !.anim_state = IF @ \in {"hurt", "attack"} /\ anim_ends
                                       THEN "idle" ELSE @]
        /\ hist' = [hist EXCEPT !.op = "animate"]
        /\ UNCHANGED <<ps, last, brain, now, units>>

\* the main loop's melee resolution: AIBrain.get_pending_damage, and for a buffered
\* hit its outcome: missed, landed (AIBrain.notify_hit_landed) or parried
\* (CombatSystem.enemy_attack stuns the enemy)
GetPendingDamage ==
    /\ hist.op = "animate"
    /\ \E outcome \in IF brain.pending_damage > 0 THEN {"miss", "hit", "parry"}
                      ELSE {"none"} :
          /\ brain' = IF outcome = "hit" /\ IsDuelist(brain)
                      THEN [GetPendingDamageOf(brain) EXCEPT
                               !.duelist = DuelistOnHitLanded(@)]
                      ELSE GetPendingDamageOf(brain)
          /\ enemy' = IF outcome = "parry" THEN [enemy EXCEPT !.is_stunned = TRUE]
                      ELSE enemy
    /\ hist' = [hist EXCEPT !.op = "damage"]
    /\ UNCHANGED <<ps, last, now, units>>

\* the main loop's projectile spawn: AIBrain.get_pending_projectile
GetPendingProjectile ==
    /\ hist.op = "damage"
    /\ brain' = GetPendingProjectileOf(brain)
    /\ hist' = [hist EXCEPT !.op = "projectile"]
    /\ UNCHANGED <<ps, last, enemy, now, units>>

Next ==
    \/ PlayerAttack
    \/ Regenerate
    \/ BrainUpdate
    \/ UpdateAnimation
    \/ GetPendingDamage
    \/ GetPendingProjectile

Spec == Init /\ [][Next]_vars

-----------------------------------------------------------------------------
(* SpecReset: the fight of Spec for the Mage, with AIBrain.reset called    *)
(* after an update or at the end of a frame                                *)

InitReset ==
    /\ brain = AIBrainInit("Mage")
    /\ enemy = EnemyInit
    /\ ps = PhaseSystemInit
    /\ now = StartTicks
    /\ hist = NoFrame
    /\ UnitsParked
    /\ last = NoOp

\* AIBrain.reset: the brain's own fields and its sub-systems (the phase system; the
\* others are as constructed); the frame under way is given up
BrainReset ==
    /\ hist.op \in {"update", "projectile"}
    /\ brain' = AIBrainReset(brain)
    /\ ps' = PhaseSystemReset(ps)
    /\ hist' = [NoFrame EXCEPT !.op = "reset"]
    /\ UNCHANGED <<last, enemy, now, units>>

NextReset ==
    \/ PlayerAttack
    \/ Regenerate
    \/ BrainUpdate
    \/ UpdateAnimation
    \/ GetPendingDamage
    \/ GetPendingProjectile
    \/ BrainReset

SpecReset == InitReset /\ [][NextReset]_vars

-----------------------------------------------------------------------------
(* SpecUnhurt: a longer fight in which the opponent never lands a hit      *)

\* the simulated time of the longer fight (ms)
MaxElapsedUnhurt == 800

InitUnhurt ==
    /\ brain = AIBrainInit("Berserker")
    /\ enemy = EnemyInit
    /\ ps = PhaseSystemInit
    /\ now = StartTicks
    /\ hist = NoFrame
    /\ UnitsParked
    /\ last = NoOp

UnhurtUpdate == UpdateWithin(MaxElapsedUnhurt)

NextUnhurt ==
    \/ UnhurtUpdate
    \/ UpdateAnimation
    \/ GetPendingDamage
    \/ GetPendingProjectile

SpecUnhurt == InitUnhurt /\ [][NextUnhurt]_vars

-----------------------------------------------------------------------------
(* SpecDesperation: a DesperationMode object fed arbitrary frames          *)

DespDtSet == {500, 1000}
DespHpLevels == {0, 5, 12, 13, 29, 30, 31, 100}

InitDesperation ==
    /\ desp = DesperationModeInit
    /\ last = [op |-> "init", dt |-> 0, hp |-> 100, before |-> DesperationModeInit]
    /\ ps = PhaseSystemInit
    /\ brain = AIBrainInit("Berserker")
    /\ enemy = EnemyInit
    /\ now = 0
    /\ hist = NoFrame
    /\ styles = AttackStyleSystemInit(2, <<"Tactician", "Mirror">>, <<100, 100>>, 0)
    /\ balancer = DifficultyBalancerInit
    /\ learner = AdaptiveLearningInit
    /\ intent = CombatIntentSystemInit("Berserker")
    /\ aggression = AggressionSystemInit
    /\ stamina = StaminaComponentInit

DesperationUpdate ==
    \E dt \in DespDtSet, hp \in DespHpLevels :
        /\ desp' = DesperationModeUpdate(desp, dt, hp)
        /\ last' = [op |-> "update", dt |-> dt, hp |-> hp, before |-> desp]
        /\ UNCHANGED <<ps, brain, enemy, now, hist, styles, balancer, learner, stamina, intent, aggression>>

DesperationReset ==
    /\ desp' = DesperationModeReset(desp)
    /\ last' = [op |-> "reset", dt |-> 0, hp |-> 100, before |-> desp]
    /\ UNCHANGED <<ps, brain, enemy, now, hist, styles, balancer, learner, stamina, intent, aggression>>

NextDesperation == DesperationUpdate \/ DesperationReset

SpecDesperation == InitDesperation /\ [][NextDesperation]_vars

-----------------------------------------------------------------------------
(* SpecAligned: the phase system and the desperation controller of one     *)
(* brain, updated by AIBrain.update from the same HP fraction, over an     *)
(* arbitrary HP history; now is the time the brain has been updated for    *)

MaxAlignedTime == 5000

NoAlignedOp == [op |-> "init", hp |-> 100, cond |-> "none"]

InitAligned ==
    /\ ps = PhaseSystemInit
    /\ desp = DesperationModeInit
    /\ last = NoAlignedOp
    /\ now = 0
    /\ brain = AIBrainInit("Berserker")
    /\ enemy = EnemyInit
    /\ hist = NoFrame
    /\ styles = AttackStyleSystemInit(2, <<"Tactician", "Mirror">>, <<100, 100>>, 0)
    /\ balancer = DifficultyBalancerInit
    /\ learner = AdaptiveLearningInit
    /\ intent = CombatIntentSystemInit("Berserker")
    /\ aggression = AggressionSystemInit
    /\ stamina = StaminaComponentInit

AlignedParked ==
    <<brain, enemy, hist, styles, balancer, learner, stamina, intent, aggression>>

\* AIBrain.update as far as the two sub-systems go: nothing for a dead or a stunned
\* enemy, else phase.update and desperation.update with the same ehp_frac
AlignedUpdate ==
    \E dt \in DespDtSet, hp \in DespHpLevels, stunned \in BOOLEAN,
       c \in BrainConfidenceSet :
        LET cond == IF hp <= 0 THEN "dead" ELSE IF stunned THEN "stunned" ELSE "acting"
        IN  /\ now + dt <= MaxAlignedTime
            /\ last.hp <= 0 => hp <= 0
            /\ ps' = IF cond = "acting" THEN PhaseSystemUpdate(ps, dt, hp, c, 0) ELSE ps
            /\ desp' = IF cond = "acting" THEN DesperationModeUpdate(desp, dt, hp)
                       ELSE desp
            /\ last' = [op |-> "update", hp |-> hp, cond |-> cond]
            /\ now' = now + dt
            /\ UNCHANGED AlignedParked

\* AIBrain.reset as far as the two sub-systems go; a new fight starts
AlignedReset ==
    /\ last.op = "update"
    /\ ps' = PhaseSystemReset(ps)
    /\ desp' = DesperationModeReset(desp)
    /\ last' = [NoAlignedOp EXCEPT !.op = "reset"]
    /\ UNCHANGED <<now, AlignedParked>>

NextAligned == AlignedUpdate \/ AlignedReset

SpecAligned == InitAligned /\ [][NextAligned]_vars

-----------------------------------------------------------------------------
(* SpecStyles: an AttackStyleSystem object fed arbitrary frames; now is the   *)
(* time it has been updated for                                               *)

StyleDtSet == {2000, 5000}
JitterSet == {-style_shift_jitter, 0}
RawWeights == {30, 100}
BlendCounts == {1, 2, 3}
MaxStyleTime == 14000

\* random.sample(ALL_ARCHETYPES, k = blend_count)
Samples(blend_count) ==
    {q \in {<<"Mirror">>, <<"Predator">>,
             <<"Berserker", "Mirror">>, <<"Trickster", "Phantom">>,
             <<"Analyzer", "Tactician", "Mirror">>} : Len(q) = blend_count}

\* the PlayerProfile handed to update: None, the dataclass defaults, a learned one
Profiles ==
    {NoProfile,
     [attack_frequency |-> 50, combo_repetition |-> 0, heavy_attack_ratio |-> 50,
      block_after_hit |-> 0, dodge_frequency |-> 0, retreat_after_attack |-> 0],
     [attack_frequency |-> 100, combo_repetition |-> 60, heavy_attack_ratio |-> 90,
      block_after_hit |-> 40, dodge_frequency |-> 20, retreat_after_attack |-> 100]}

NoStyleOp ==
    [op |-> "init", dt |-> 0, rotated |-> FALSE, replaced |-> FALSE, stale |-> "none",
     checked |-> [active |-> <<>>, nums |-> <<>>, den |-> 1]]

InitStyles ==
    /\ \E k \in BlendCounts, jitter \in JitterSet :
         \E sample \in Samples(k), raw \in [1..k -> RawWeights] :
            styles = AttackStyleSystemInit(k, sample, raw, jitter)
    /\ last = NoStyleOp
    /\ now = 0
    /\ desp = DesperationModeInit
    /\ ps = PhaseSystemInit
    /\ brain = AIBrainInit("Berserker")
    /\ enemy = EnemyInit
    /\ hist = NoFrame
    /\ balancer = DifficultyBalancerInit
    /\ learner = AdaptiveLearningInit
    /\ intent = CombatIntentSystemInit("Berserker")
    /\ aggression = AggressionSystemInit
    /\ stamina = StaminaComponentInit

\* last: the operation, and for an update whether its shift timer ran out on a blend
\* of two or more (rotated) and whether its staleness check replaced the dominant
\* archetype (replaced: the newcomer's staleness is 0 at the end of the update);
\* checked is the blend the staleness check ran on and stale the dominant archetype
\* it found active for more than cfg.staleness_timer, if it did.  The action is
\* AttackStyleSystemUpdate(styles, dt, profile, jitter) with its three steps spelled
\* out, so that the blend the check ran on can be named
StylesUpdate ==
    \E dt \in StyleDtSet, profile \in Profiles, jitter \in JitterSet :
        /\ now + dt <= MaxStyleTime
        /\ \E s4 \in StalenessCheckInput(styles, dt, jitter) :
              \E s5 \in StalenessCheck(s4) :
                 LET s == MirrorAndBlend(s5, profile)
                 IN /\ styles' = s
                    /\ last' = [op |-> "update", dt |-> dt,
                                rotated |-> (styles.shift_timer - dt <= 0
                                               /\ Len(styles.active) >= 2),
                                replaced |-> (\E a \in DOMAIN s.staleness :
                                                 s.staleness[a] = 0),
                                stale |-> IF s4.staleness[DominantArchetype(s4)]
                                               > staleness_timer
                                          THEN DominantArchetype(s4) ELSE "none",
                                checked |-> [active |-> s4.active, nums |-> s4.nums,
                                             den |-> s4.den]]
        /\ now' = now + dt
        /\ UNCHANGED <<ps, brain, enemy, hist, desp, balancer, learner, stamina, intent, aggression>>

StylesReset ==
    \E jitter \in JitterSet, sample \in Samples(styles.blend_count) :
        \E raw \in [1..styles.blend_count -> RawWeights] :
            /\ last.op = "update"
            /\ styles' = AttackStyleSystemReset(styles, sample, raw, jitter)
            /\ last' = [NoStyleOp EXCEPT !.op = "reset"]
            /\ UNCHANGED <<ps, brain, enemy, hist, desp, now, balancer, learner, stamina, intent, aggression>>

NextStyles == StylesUpdate \/ StylesReset

SpecStyles == InitStyles /\ [][NextStyles]_vars

-----------------------------------------------------------------------------
(* SpecBalancer: a DifficultyBalancer object fed arbitrary events and frames  *)

BalancerDtSet == {500, 1000}
DamageSet == {10, 25}
MaxBalancerEvents == 3
MaxRounds == 1
MaxBalancerTime == 1500

\* last: the operation, and for the two resets the balancer they started from
NoBalancerOp == [op |-> "init", before |-> DifficultyBalancerInit]

InitBalancer ==
    /\ balancer = DifficultyBalancerInit
    /\ learner = AdaptiveLearningInit
    /\ intent = CombatIntentSystemInit("Berserker")
    /\ aggression = AggressionSystemInit
    /\ stamina = StaminaComponentInit
    /\ last = NoBalancerOp
    /\ now = 0
    /\ desp = DesperationModeInit
    /\ styles = AttackStyleSystemInit(2, <<"Tactician", "Mirror">>, <<100, 100>>, 0)
    /\ ps = PhaseSystemInit
    /\ brain = AIBrainInit("Berserker")
    /\ enemy = EnemyInit
    /\ hist = NoFrame

BalancerParked == <<ps, brain, enemy, now, hist, desp, styles, learner, stamina, intent, aggression>>

\* events recorded since the last reset
EventsRecorded(st) ==
    st.player_hits + st.player_misses + st.enemy_hits + st.enemy_misses
        + st.player_blocks_success + st.player_dodges

BalancerStep(op, b) ==
    /\ balancer' = b
    /\ last' = [op |-> op,
                before |-> IF op \in {"reset", "full_reset"} THEN balancer
                           ELSE DifficultyBalancerInit]
    /\ UNCHANGED BalancerParked

CanRecord == EventsRecorded(balancer.stats) < MaxBalancerEvents

BalancerPlayerHit ==
    \E d \in DamageSet : CanRecord /\ BalancerStep("player_hit", RecordPlayerHit(balancer, d))
BalancerPlayerMiss == CanRecord /\ BalancerStep("player_miss", RecordPlayerMiss(balancer))
BalancerEnemyHit ==
    \E d \in DamageSet : CanRecord /\ BalancerStep("enemy_hit", RecordEnemyHit(balancer, d))
BalancerEnemyMiss == CanRecord /\ BalancerStep("enemy_miss", RecordEnemyMiss(balancer))
BalancerPlayerBlock == CanRecord /\ BalancerStep("player_block", RecordPlayerBlock(balancer))
BalancerPlayerDodge == CanRecord /\ BalancerStep("player_dodge", RecordPlayerDodge(balancer))

BalancerRoundResult ==
    \E player_won \in BOOLEAN :
        /\ (IF player_won THEN balancer.stats.rounds_player_won
            ELSE balancer.stats.rounds_enemy_won) < MaxRounds
        /\ BalancerStep("round", RecordRoundResult(balancer, player_won))

BalancerUpdate ==
    \E dt \in BalancerDtSet :
        /\ balancer.stats.total_fight_time + dt <= MaxBalancerTime
        /\ BalancerStep("update", DifficultyBalancerUpdate(balancer, dt))

BalancerReset == BalancerStep("reset", DifficultyBalancerReset(balancer))

BalancerFullReset == BalancerStep("full_reset", DifficultyBalancerFullReset(balancer))

NextBalancer ==
    \/ BalancerPlayerHit \/ BalancerPlayerMiss \/ BalancerEnemyHit \/ BalancerEnemyMiss
    \/ BalancerPlayerBlock \/ BalancerPlayerDodge \/ BalancerRoundResult
    \/ BalancerUpdate \/ BalancerReset \/ BalancerFullReset

SpecBalancer == InitBalancer /\ [][NextBalancer]_vars

-----------------------------------------------------------------------------
(* SpecLearner: an AdaptiveLearning object fed arbitrary frames; now is the   *)
(* time it has observed                                                       *)

LearnerDtSet == {500, 1000}
MaxLearnTime == 4000

\* what _analyze finds in these runs: the opponent keeps close and the window holds
\* fewer attacks than advice needs
QuietProfile ==
    [PlayerProfileInit EXCEPT !.attack_frequency = 30, !.preferred_range = "close",
                              !.range_close_bias = 100, !.range_mid_bias = 0,
                              !.range_far_bias = 0]

\* the learner as constructed, and a learner late in a fight whose confidence has
\* reached confidence_max: its last attack event was one quiet frame ago
LearnerStarts ==
    {AdaptiveLearningInit,
     [AdaptiveLearningInit EXCEPT !.confidence = confidence_max,
                                  !.inactivity_timer = 1000,
                                  !.reanalyze_timer = reanalyze_interval]}

LearnerParked == <<ps, brain, enemy, hist, desp, styles, balancer, stamina, intent, aggression>>

\* last: the operation; for an observe the confidence it started from, whether it
\* detected a rising edge of one of the three flags (edge), and the time observed
\* since the last call that detected one (quiet)
InitLearner ==
    /\ learner \in LearnerStarts
    /\ intent = CombatIntentSystemInit("Berserker")
    /\ aggression = AggressionSystemInit
    /\ stamina = StaminaComponentInit
    /\ last = [op |-> "init", before |-> learner.confidence, edge |-> FALSE,
               quiet |-> learner.inactivity_timer]
    /\ now = 0
    /\ desp = DesperationModeInit
    /\ styles = AttackStyleSystemInit(2, <<"Tactician", "Mirror">>, <<100, 100>>, 0)
    /\ balancer = DifficultyBalancerInit
    /\ ps = PhaseSystemInit
    /\ brain = AIBrainInit("Berserker")
    /\ enemy = EnemyInit
    /\ hist = NoFrame

LearnerObserve ==
    \E dt \in LearnerDtSet, attacking, blocking, dodging \in BOOLEAN :
        LET edge == \/ attacking /\ ~learner.player_was_attacking
                    \/ blocking /\ ~learner.player_was_blocking
                    \/ dodging /\ ~learner.player_was_dodging
        IN  /\ now + dt <= MaxLearnTime
            /\ learner' = AdaptiveLearningObserve(learner, dt, attacking, blocking, dodging,
                                                  QuietProfile, 0)
            /\ last' = [op |-> "observe", before |-> learner.confidence, edge |-> edge,
                        quiet |-> (IF edge THEN 0 ELSE last.quiet) + dt]
            /\ now' = now + dt
            /\ UNCHANGED LearnerParked

LearnerNotifyPlayerHit ==
    /\ learner' = NotifyPlayerHit(learner)
    /\ last' = [last EXCEPT !.op = "notify", !.before = learner.confidence,
                            !.edge = FALSE]
    /\ UNCHANGED <<now, LearnerParked>>

LearnerReset ==
    /\ last.op = "observe"
    /\ learner' = AdaptiveLearningReset(learner)
    /\ last' = [op |-> "reset", before |-> learner.confidence, edge |-> FALSE,
                quiet |-> 0]
    /\ UNCHANGED <<now, LearnerParked>>

NextLearner == LearnerObserve \/ LearnerNotifyPlayerHit \/ LearnerReset

SpecLearner == InitLearner /\ [][NextLearner]_vars

-----------------------------------------------------------------------------
(* SpecAdvice: an AdaptiveLearning object whose re-analysis finds arbitrary   *)
(* profiles; the opponent only attacks                                        *)

AdviceDtSet == {250, 500}
MaxAdviceTime == 2000
AttackCounts == {min_events_for_advice - 1, min_events_for_advice}

\* a metronomic spammer who repeats combos at close range; a heavy hitter who keeps
\* far and blocks after being hit; an opponent with no habit at mid range
AnalysedProfiles ==
    {[attack_frequency |-> 100, attack_rhythm |-> 100, combo_repetition |-> 50,
      heavy_attack_ratio |-> 0, preferred_range |-> "close",
      range_close_bias |-> 100, range_mid_bias |-> 0, range_far_bias |-> 0,
      block_after_hit |-> 0, dodge_frequency |-> 0, retreat_after_attack |-> 0,
      stamina_reckless |-> 100],
     [attack_frequency |-> 40, attack_rhythm |-> 20, combo_repetition |-> 0,
      heavy_attack_ratio |-> 100, preferred_range |-> "far",
      range_close_bias |-> 0, range_mid_bias |-> 0, range_far_bias |-> 100,
      block_after_hit |-> 50 + 10, dodge_frequency |-> 0, retreat_after_attack |-> 100,
      stamina_reckless |-> 48],
     [attack_frequency |-> 50, attack_rhythm |-> 0, combo_repetition |-> 0,
      heavy_attack_ratio |-> 50, preferred_range |-> "mid",
      range_close_bias |-> 0, range_mid_bias |-> 100, range_far_bias |-> 0,
      block_after_hit |-> 0, dodge_frequency |-> 0, retreat_after_attack |-> 0,
      stamina_reckless |-> 60]}

\* last: the operation; for an observe whether it re-analysed, the number of recent
\* attacks the analysis counted, and the advice held before the call
NoAdviceOp == [op |-> "init", analysed |-> FALSE, n_attacks |-> 0,
               before |-> CounterAdviceInit]

InitAdvice ==
    /\ learner \in LearnerStarts
    /\ intent = CombatIntentSystemInit("Berserker")
    /\ aggression = AggressionSystemInit
    /\ stamina = StaminaComponentInit
    /\ last = NoAdviceOp
    /\ now = 0
    /\ desp = DesperationModeInit
    /\ styles = AttackStyleSystemInit(2, <<"Tactician", "Mirror">>, <<100, 100>>, 0)
    /\ balancer = DifficultyBalancerInit
    /\ ps = PhaseSystemInit
    /\ brain = AIBrainInit("Berserker")
    /\ enemy = EnemyInit
    /\ hist = NoFrame

AdviceObserve ==
    \E dt \in AdviceDtSet, attacking \in BOOLEAN, p \in AnalysedProfiles,
       n_attacks \in AttackCounts :
        /\ now + dt <= MaxAdviceTime
        /\ learner' = AdaptiveLearningObserve(learner, dt, attacking, FALSE, FALSE,
                                              p, n_attacks)
        /\ last' = [op |-> "observe",
                    analysed |-> learner.reanalyze_timer - dt <= 0,
                    n_attacks |-> n_attacks,
                    before |-> learner.advice]
        /\ now' = now + dt
        /\ UNCHANGED LearnerParked

AdviceReset ==
    /\ last.op = "observe"
    /\ learner' = AdaptiveLearningReset(learner)
    /\ last' = [NoAdviceOp EXCEPT !.op = "reset", !.before = learner.advice]
    /\ UNCHANGED <<now, LearnerParked>>

NextAdvice == AdviceObserve \/ AdviceReset

SpecAdvice == InitAdvice /\ [][NextAdvice]_vars

-----------------------------------------------------------------------------
(* SpecStamina: the attack-execution path called again and again on an enemy *)
(* whose stamina runs low, with frames of the main loop in between           *)

StaminaDtSet == {100, 300}
MaxStaminaTime == 900
\* full, short of the heavy attack's minimum, short of both minima, short of both
\* even in rage
StaminaStarts == {STAMINA_MAX, 1500, 300, 100}
\* above and below rage_hp_threshold
StaminaHpLevels == {100, 10}

\* last: the operation; for an execute the attack type it picked ("none" when it
\* returned before picking one), the damage it returned, and the brain, the enemy and
\* the component it started from
NoStaminaOp == [op |-> "init", attack |-> "none", dmg |-> 0,
                b |-> brain, e |-> enemy, s |-> stamina, st |-> styles]

InitStamina ==
    /\ brain = AIBrainInit("Berserker")
    /\ \E hp \in StaminaHpLevels : enemy = [EnemyInit EXCEPT !.hp = hp]
    /\ \E st \in StaminaStarts : stamina = [StaminaComponentInit EXCEPT !.stamina = st]
    /\ now = 0
    /\ ps = PhaseSystemInit
    /\ hist = NoFrame
    /\ desp = DesperationModeInit
    /\ styles = AttackStyleSystemInit(2, <<"Tactician", "Mirror">>, <<100, 100>>, 0)
    /\ balancer = DifficultyBalancerInit
    /\ learner = AdaptiveLearningInit
    /\ intent = CombatIntentSystemInit("Berserker")
    /\ aggression = AggressionSystemInit
    /\ last = NoStaminaOp

StaminaParked == <<ps, hist, desp, balancer, learner, intent, aggression>>

\* a call of AIBrain._execute_attack
StaminaExecuteAttack ==
    \E dist \in DistSet :
        \E r \in ExecuteAttackRecorded(World, stamina, styles, dist, now) :
            /\ brain' = r.w.b
            /\ enemy' = r.w.e
            /\ stamina' = r.s
            /\ styles' = r.styles
            /\ last' = [op |-> "execute", attack |-> r.attack, dmg |-> r.dmg,
                        b |-> brain, e |-> enemy, s |-> stamina, st |-> styles]
            /\ UNCHANGED <<now, StaminaParked>>

\* a frame of the main loop without an attack: the cooldown ticks, the swing may end,
\* StaminaSystem.update regenerates
StaminaFrame ==
    \E dt \in StaminaDtSet, anim_ends \in BOOLEAN :
        \E w \in CooldownTick(World, dt) :
            LET e2 == [enemy EXCEPT !.anim_state = IF @ = "attack" /\ anim_ends
                                                   THEN "idle" ELSE @]
                r == StaminaSystemUpdate(e2, stamina, dt)
            IN  /\ now + dt <= MaxStaminaTime
                /\ brain' = w.b
                /\ enemy' = r.e
                /\ stamina' = r.s
                /\ last' = [op |-> "frame", attack |-> "none", dmg |-> 0,
                            b |-> brain, e |-> enemy, s |-> stamina, st |-> styles]
                /\ now' = now + dt
                /\ UNCHANGED <<styles, StaminaParked>>

NextStamina == StaminaExecuteAttack \/ StaminaFrame

SpecStamina == InitStamina /\ [][NextStamina]_vars

-----------------------------------------------------------------------------
(* SpecPending: Enemy.update frames with the two buffer getters called any   *)
(* number of times in between, also not at all                               *)

MaxPendingTime == 300

\* last: the operation; for a getter what it returned (damage, or 1 / 0 for the
\* projectile flag) and what was buffered before it; the operation before this one and
\* what that returned; whether the last update that wrote the damage buffer wrote it
\* over a value not yet collected
NoPendingOp ==
    [op |-> "init", returned |-> 0, damage |-> 0, projectile |-> FALSE,
     prev_op |-> "init", prev_returned |-> 0, overwrote |-> FALSE]

InitPending ==
    /\ \E p \in Personalities : brain = AIBrainInit(p)
    /\ enemy = EnemyInit
    /\ ps = PhaseSystemInit
    /\ now = StartTicks
    /\ hist = NoFrame
    /\ UnitsParked
    /\ last = NoPendingOp

Then(op, returned) ==
    [last EXCEPT !.op = op, !.returned = returned,
                 !.damage = brain.pending_damage, !.projectile = brain.pending_projectile,
                 !.prev_op = last.op, !.prev_returned = last.returned]

\* Enemy.update: AIBrain.update, then Character.update_animation, in which the dodge
\* and the swing may each end
PendingEnemyUpdate ==
    \E dt \in DtSet, dist \in DistSet, pa, dodge_ends, anim_ends \in BOOLEAN :
        /\ now + dt <= StartTicks + MaxPendingTime
        /\ \E w \in AIBrainUpdate(World,
                       [dt |-> dt, dist |-> dist, player_is_attacking |-> pa,
                        intent_high |-> BOOLEAN, punish_ready |-> BOOLEAN], now) :
              /\ brain' = w.b
              /\ ps' = w.ps
              /\ enemy' = [w.e EXCEPT
                              !.is_dodging = @ /\ ~dodge_ends,
                              !.anim_state = IF @ = "attack" /\ anim_ends THEN "idle" ELSE @]
              /\ last' = [Then("update", 0) EXCEPT
                             !.overwrote =
                                 IF w.b.pending_damage # brain.pending_damage
                                 THEN brain.pending_damage > 0 ELSE @]
        /\ now' = now + dt
        /\ UNCHANGED <<hist, units>>

\* AIBrain.get_pending_damage
PendingGetDamage ==
    /\ brain' = GetPendingDamageOf(brain)
    /\ last' = Then("get_damage", PendingDamageReturned(brain))
    /\ UNCHANGED <<ps, enemy, now, hist, units>>

\* AIBrain.get_pending_projectile
PendingGetProjectile ==
    /\ brain' = GetPendingProjectileOf(brain)
    /\ last' = Then("get_projectile", IF PendingProjectileReturned(brain) THEN 1 ELSE 0)
    /\ UNCHANGED <<ps, enemy, now, hist, units>>

NextPending == PendingEnemyUpdate \/ PendingGetDamage \/ PendingGetProjectile

SpecPending == InitPending /\ [][NextPending]_vars

-----------------------------------------------------------------------------
(* SpecOpening: the first frames of a fight, Enemy.update with the brain's    *)
(* intent system and aggression system and with the attack animation timed:   *)
(* a freshly constructed brain, an enemy at full HP and full stamina, no       *)
(* damage dealt or taken                                                       *)

\* frame lengths: the 60 fps frame of the main loop, the longest frame the
\* simulation runner lets through, and a stalled frame
OpeningDtSet == {16, 50, 100}
OpeningDistSet == {50, 150}
\* the number of updates followed
MaxOpeningFrames == 3
\* style_mods.aggression_mult, thousandths: the blend is added to the default 1.0
StyleAggressionSet == {1800, 2550}
\* diff_mods.aggression_mult of a balancer without events, hundredths
NeutralDfmAggression == 100
\* Character.attack_duration, ms
attack_duration == 350
DUELIST_ATTACK_DURATION == 250

\* _execute_attack shortens the Duelist's swing; in this specification
\* last_attack_type is written by _execute_attack only
AttackDuration(b) ==
    IF IsDuelist(b) /\ b.last_attack_type # "none" THEN DUELIST_ATTACK_DURATION
    ELSE attack_duration

\* the last update: its inputs, how many updates there were, in how many of them the
\* opponent was attacking (the length of _player_attack_timestamps, none older than
\* 3 s), the enemy's anim_timer while the attack animation plays (swing), the FSM
\* state and the feint timer the update started from, the update time spent in the
\* feint state up to and including this update (feint_run), and the path the update
\* took (tr)
NoOpeningOp == [op |-> "init", frames |-> 0, dt |-> 0, dist |-> 0,
                player_is_attacking |-> FALSE, attack_frames |-> 0, swing |-> 0,
                state |-> "chase", feint_timer |-> 0, feint_run |-> 0, tr |-> NoTrace]

InitOpening ==
    /\ \E p \in Personalities : /\ brain = AIBrainInit(p)
                                /\ intent = CombatIntentSystemInit(p)
    /\ aggression = AggressionSystemInit
    /\ enemy = EnemyInit
    /\ ps = PhaseSystemInit
    /\ now = StartTicks
    /\ hist = NoFrame
    /\ last = NoOpeningOp
    /\ desp = DesperationModeInit
    /\ styles = AttackStyleSystemInit(2, <<"Tactician", "Mirror">>, <<100, 100>>, 0)
    /\ balancer = DifficultyBalancerInit
    /\ learner = AdaptiveLearningInit
    /\ stamina = StaminaComponentInit

\* Character.update_animation for the attack animation and the dodge: anim_timer was
\* zeroed by start_attack if the swing began in this update
AnimationAfter(e_before, e, b, swing, dt, dodge_ends) ==
    LET timer == (IF e_before.anim_state = "attack" THEN swing ELSE 0) + dt
        over == e.anim_state = "attack" /\ timer >= AttackDuration(b)
    IN  [e |-> [e EXCEPT !.anim_state = IF over THEN "idle" ELSE @,
                         !.is_dodging = @ /\ ~dodge_ends],
         swing |-> IF e.anim_state = "attack" /\ ~over THEN timer ELSE 0]

\* Enemy.update: AIBrain.update (_observe_player, intent.update with the tempo mode
\* of the frame before, aggression.update with the new aggression level, the FSM
\* with intent_high and punish_ready as these two leave them) and update_animation
OpeningUpdate ==
    \E dt \in OpeningDtSet, dist \in OpeningDistSet, pa \in BOOLEAN, dodge_ends \in BOOLEAN :
        LET acting == FrameCondition(enemy) = "acting"
            attack_frames == last.attack_frames + (IF acting /\ pa THEN 1 ELSE 0)
            player_aggression == Min(100, (attack_frames * 100) \div 6)
            i2 == IF acting
                  THEN CombatIntentUpdate(intent, dt, dist,
                                          (stamina.stamina * 100) \div STAMINA_MAX,
                                          player_aggression, aggression.tempo_mode,
                                          enemy.hp, 0, 0)
                  ELSE intent
            a2 == IF acting
                  THEN AggressionSystemUpdate(aggression, dt, now, enemy.hp, 0,
                                              i2.aggression_level, pa, dist, ATTACK_RANGE)
                  ELSE aggression
            highs == {IntentHigh(i2, a2,
                          IntentThreshold(
                              PhaseSystemUpdate(ps, dt, enemy.hp, c, 0).modifiers.aggression_mult,
                              NeutralDfmAggression, sm)) :
                        c \in BrainConfidenceSet, sm \in StyleAggressionSet}
        IN  /\ last.frames < MaxOpeningFrames
            /\ \E w \in AIBrainUpdate(World,
                           [dt |-> dt, dist |-> dist, player_is_attacking |-> pa,
                            intent_high |-> highs,
                            punish_ready |-> {a2.punish.punish_ready}], now) :
                  LET anim == AnimationAfter(enemy, w.e, w.b, last.swing, dt, dodge_ends)
                  IN  /\ brain' = w.b
                      /\ enemy' = anim.e
                      /\ ps' = w.ps
                      /\ last' = [op |-> "update", frames |-> last.frames + 1, dt |-> dt,
                                  dist |-> dist, player_is_attacking |-> pa,
                                  attack_frames |-> attack_frames, swing |-> anim.swing,
                                  state |-> brain.state, feint_timer |-> brain.feint_timer,
                                  feint_run |-> IF acting /\ brain.state = "feint"
                                                THEN last.feint_run + dt ELSE 0,
                                  tr |-> w.tr]
            /\ intent' = i2
            /\ aggression' = a2
            /\ now' = now + dt
            /\ UNCHANGED <<hist, desp, styles, balancer, learner, stamina>>

NextOpening == OpeningUpdate

SpecOpening == InitOpening /\ [][NextOpening]_vars

-----------------------------------------------------------------------------
(* SpecPunish: an AggressionSystem object fed arbitrary frames of an opponent *)
(* who starts and stops attacking; now is the time of the last update         *)

PunishDtSet == {150, 300}
\* inside and outside 1.8 attack ranges
PunishDistSet == {50, 200}
MaxPunishTime == 2100

\* the last operation, whether the opponent was attacking in it, and the times of the
\* updates of the last two seconds in which the opponent was attacking and in the
\* update before was not: the starts of the opponent's separate attacks
NoPunishOp == [op |-> "init", player_is_attacking |-> FALSE, starts |-> <<>>]

InitPunish ==
    /\ aggression = AggressionSystemInit
    /\ intent = CombatIntentSystemInit("Berserker")
    /\ last = NoPunishOp
    /\ now = 0
    /\ brain = AIBrainInit("Berserker")
    /\ enemy = EnemyInit
    /\ ps = PhaseSystemInit
    /\ hist = NoFrame
    /\ desp = DesperationModeInit
    /\ styles = AttackStyleSystemInit(2, <<"Tactician", "Mirror">>, <<100, 100>>, 0)
    /\ balancer = DifficultyBalancerInit
    /\ learner = AdaptiveLearningInit
    /\ stamina = StaminaComponentInit

PunishParked == <<ps, brain, enemy, hist, desp, styles, balancer, learner, stamina, intent>>

\* AggressionSystem.update in a frame of dt, for an enemy at full HP and an even match
PunishUpdate ==
    \E dt \in PunishDtSet, dist \in PunishDistSet, pa \in BOOLEAN :
        /\ now + dt <= MaxPunishTime
        /\ aggression' = AggressionSystemUpdate(aggression, dt, now + dt, 100, 0,
                                                intent.aggression_level, pa, dist,
                                                ATTACK_RANGE)
        /\ last' = [op |-> "update", player_is_attacking |-> pa,
                    starts |-> Recent(IF pa /\ ~last.player_is_attacking
                                      THEN Append(last.starts, now + dt)
                                      ELSE last.starts, now + dt)]
        /\ now' = now + dt
        /\ UNCHANGED PunishParked

\* AggressionSystem.reset
PunishReset ==
    /\ last.op = "update"
    /\ aggression' = [aggression EXCEPT !.tempo_mode = "balanced",
                                        !.punish = PunishDetectorReset(@)]
    /\ last' = [NoPunishOp EXCEPT !.op = "reset"]
    /\ UNCHANGED <<now, PunishParked>>

NextPunish == PunishUpdate \/ PunishReset

SpecPunish == InitPunish /\ [][NextPunish]_vars

-----------------------------------------------------------------------------
(* Claims about the PhaseSystem (checked under SpecPhase)                  *)

PhaseUpdated == last.op = "update"
TimerInFrame == last.before.phase_timer + last.dt
FightInFrame == last.before.fight_timer + last.dt

\* C5: between two resets the phase index never decreases in an update, whatever the
\* HP fraction, confidence and flow ratio fed to it; in particular Rage is never left.
C5_PhaseNeverDecreases ==
    PhaseUpdated =>
        /\ ps.phase >= last.before.phase
        /\ (last.before.phase = RAGE => ps.phase = RAGE)

\* an update that started in Rage with HP back at 1.0
C5_Witness ==
    PhaseUpdated /\ last.before.phase = RAGE /\ last.hp = 100 /\ ps.phase = RAGE

\* C6: HP checks have priority: an update with HP <= rage threshold ends in Rage from
\* any phase; one with rage threshold < HP <= desperation threshold ends in
\* max(previous phase, Desperation), also when the Observe exit condition holds.
C6_HpPriority ==
    PhaseUpdated =>
        /\ (last.hp <= rage_hp_threshold => ps.phase = RAGE)
        /\ (last.hp > rage_hp_threshold /\ last.hp <= desperation_hp_threshold
              => ps.phase = Max(last.before.phase, DESPERATION))

\* an update from Observe in which the Observe exit condition holds and HP is at the
\* desperation threshold: the phase goes to Desperation, not Counter
C6_Witness ==
    /\ PhaseUpdated
    /\ last.before.phase = OBSERVE
    /\ TimerInFrame >= observe_min_duration
    /\ last.confidence >= observe_exit_confidence
    /\ last.hp = desperation_hp_threshold
    /\ ps.phase = DESPERATION

\* C7: with HP above the desperation threshold, Observe is left only for Counter and
\* only when (time in phase >= observe_min_duration and confidence >=
\* observe_exit_confidence) or the fight time exceeds 2.5 x observe_min_duration;
\* from Counter no time or confidence rule changes the phase.
C7_ObserveExit ==
    (PhaseUpdated /\ last.hp > desperation_hp_threshold) =>
        /\ (last.before.phase = OBSERVE /\ ps.phase # OBSERVE) =>
              /\ ps.phase = COUNTER
              /\ \/ /\ TimerInFrame >= observe_min_duration
                    /\ last.confidence >= observe_exit_confidence
                 \/ FightInFrame > ForcedCounterTime
        /\ (last.before.phase = COUNTER => ps.phase = COUNTER)

\* Observe left for Counter by the time and confidence rule, before the forced entry
C7_Witness ==
    /\ PhaseUpdated
    /\ last.hp > desperation_hp_threshold
    /\ last.before.phase = OBSERVE
    /\ ps.phase = COUNTER
    /\ FightInFrame <= ForcedCounterTime

\* C8 as stated: with HP 1.0 and confidence 0 in every frame, once the frames sum to
\* observe_min_duration * 2.5 the phase is at least Counter.
C8_AntiStallAtLimit ==
    (PhaseUpdated /\ last.calm /\ ps.fight_timer >= ForcedCounterTime)
        => ps.phase >= COUNTER

\* C8 amended: with HP 1.0 and confidence 0 in every frame, once the frames sum to
\* strictly more than observe_min_duration * 2.5 the phase is at least Counter.
C8_AntiStall ==
    (PhaseUpdated /\ last.calm /\ ps.fight_timer > ForcedCounterTime)
        => ps.phase >= COUNTER

\* the first frame past the limit of an all-calm fight
C8_Witness ==
    /\ PhaseUpdated /\ last.calm
    /\ last.before.fight_timer = ForcedCounterTime
    /\ last.before.phase = OBSERVE
    /\ ps.phase = COUNTER

\* C9: modifiers.just_transitioned is True after an update iff the phase changed in
\* it; then previous_phase is the phase before the change and the phase timer is 0;
\* the published bundle is always the one of the phase the update ended in.
C9_TransitionFlag ==
    PhaseUpdated =>
        /\ ps.modifiers.just_transitioned <=> (ps.phase # last.before.phase)
        /\ ps.modifiers.just_transitioned =>
              /\ ps.modifiers.previous_phase = last.before.phase
              /\ ps.phase_timer = 0
        /\ ps.modifiers.phase = ps.phase
        /\ \A f \in BundleFields : ps.modifiers[f] = PhaseBundle(ps.phase)[f]

\* a transition made after the phase timer had run for a while
C9_Witness ==
    /\ PhaseUpdated
    /\ ps.modifiers.just_transitioned
    /\ last.before.phase_timer > 0
    /\ ps.phase = DESPERATION
    /\ ps.modifiers.previous_phase = COUNTER

-----------------------------------------------------------------------------
(* Claims about AIBrain.update (checked under Spec and SpecUnhurt)         *)

BrainUpdated == hist.op = "update"
FsmStates == {"chase", "attack", "retreat", "block_wait", "strafe", "feint"}
Frames == [dt : DtSet, dist : DistSet, player_is_attacking : BOOLEAN,
           intent_high : {BOOLEAN}, punish_ready : {BOOLEAN}]

\* C1: while the enemy stays alive and unstunned, the FSM never ends more than
\* _IDLE_LIMIT consecutive updates in a passive state (attack, block_wait, idle, feint).
C1_PassiveRunBounded ==
    hist.passive_run <= IDLE_LIMIT

\* C2: after every update on an alive, unstunned enemy the FSM state is one of chase,
\* attack, retreat, block_wait, strafe, feint; it is never "idle" nor any other value.
C2_ValidState ==
    (BrainUpdated /\ hist.cond = "acting") => brain.state \in FsmStates

\* an update of an acting enemy that holds its block: a passive state kept by
\* _tick_state while the decision timer runs
C2_Witness ==
    /\ BrainUpdated /\ hist.cond = "acting"
    /\ brain.state = "block_wait" /\ enemy.is_blocking
    /\ brain.block_timer > 0 /\ brain.decision_timer > 0

\* C3: an update on a dead enemy (or one in the death animation) changes nothing in the
\* brain, its phase system or the enemy; an update on a stunned enemy changes only the
\* FSM state, to "stunned": no timer advances, nothing is buffered, the enemy is untouched.
C3_GuardedFrames ==
    [][ now' # now =>
          /\ FrameCondition(enemy) = "dead" =>
                brain' = brain /\ ps' = ps /\ enemy' = enemy
          /\ FrameCondition(enemy) = "stunned" =>
                /\ brain' = [brain EXCEPT !.state = "stunned"]
                /\ ps' = ps /\ enemy' = enemy ]_vars

\* an update on a stunned enemy with the cooldown and the decision timer running and
\* the cinematic flags up
C3_Witness ==
    /\ BrainUpdated /\ hist.cond = "stunned"
    /\ brain.state = "stunned"
    /\ brain.cooldown_timer > 0 /\ brain.decision_timer > 0
    /\ brain.event_phase_transition

\* C4: for an enemy past the death guard, the FSM state at the end of an update is
\* "stunned" iff the enemy was stunned during that update; the first update after the
\* stun behaves as an update started in "chase" (the state is forced before any decision).
C4_StunYieldsBack ==
    [][ (now' # now /\ FrameCondition(enemy) # "dead") =>
          /\ brain'.state = "stunned" <=> FrameCondition(enemy) = "stunned"
          /\ (brain.state = "stunned" /\ FrameCondition(enemy) = "acting") =>
                \E f \in Frames :
                    \E w \in ActingFrame([World EXCEPT !.b.state = "chase"], f, now) :
                        brain' = w.b /\ enemy' = w.e /\ ps' = w.ps ]_vars

\* the first update after a stun has ended somewhere else than in "stunned"
C4_Witness ==
    BrainUpdated /\ hist.stun_cleared /\ brain.state \in FsmStates \ {"chase"}

\* C10: once event_phase_transition is up, it and event_rage_entered are down again
\* after the next update that makes no transition itself, whether the enemy is acting,
\* stunned or dead in it.
C10_FlagsLastOneFrame ==
    (BrainUpdated /\ hist.flag_before
       /\ ~(hist.cond = "acting" /\ ps.modifiers.just_transitioned))
        => (~brain.event_phase_transition /\ ~brain.event_rage_entered)

-----------------------------------------------------------------------------
(* Claims about DesperationMode (checked under SpecDesperation)            *)

DesperationUpdated == last.op = "update"

\* C11: after an update with HP at or above the activation threshold desperation is
\* inactive and every modifier is at identity (flags False, intensity, boosts and
\* chances 0, multipliers 1.0, rage overrides -1), and the three should_* rolls can
\* only return False, whatever burst or rage was in progress before.
C11_InactiveIsIdentity ==
    (DesperationUpdated /\ last.hp >= activation_threshold) =>
        /\ desp.m = DesperationModifiersInit
        /\ ShouldFeint(desp) = {FALSE}
        /\ ShouldCancelAttack(desp) = {FALSE}
        /\ ShouldRiskCombo(desp) = {FALSE}

\* an update at full HP that found rage and the burst in progress
C11_Witness ==
    /\ DesperationUpdated /\ last.hp = 100
    /\ last.before.m.rage_active /\ last.before.m.burst_active
    /\ last.before.rage_burst_timer > 0
    /\ ~desp.m.active

\* C12: after every update rage_active implies active; an update with HP exactly at
\* the rage threshold sets both; the two rage overrides are 0.0 exactly when
\* rage_active and the sentinel -1 otherwise.
C12_RageImpliesDesperation ==
    DesperationUpdated =>
        /\ desp.m.rage_active => desp.m.active
        /\ last.hp = desp_rage_hp_threshold => (desp.m.rage_active /\ desp.m.active)
        /\ IF desp.m.rage_active
           THEN desp.m.rage_retreat_override = 0 /\ desp.m.rage_block_override = 0
           ELSE /\ desp.m.rage_retreat_override = -DUnit
                /\ desp.m.rage_block_override = -DUnit

\* an update with HP exactly at the rage threshold, coming from plain desperation
C12_Witness ==
    /\ DesperationUpdated /\ last.hp = desp_rage_hp_threshold
    /\ last.before.m.active /\ ~last.before.m.rage_active
    /\ desp.m.rage_active /\ desp.m.rage_retreat_override = 0

\* C13: an update of an acting enemy whose rage is active (HP at or below the rage
\* threshold) never starts a block and never moves the FSM into "block_wait", whatever
\* the personality, the distance and the opponent's attack
C13_NoBlockStartInRage ==
    [][(now' # now /\ FrameCondition(enemy) = "acting" /\ RageActive(enemy.hp))
         => /\ ~(~enemy.is_blocking /\ enemy'.is_blocking)
            /\ ~(brain.state # "block_wait" /\ brain'.state = "block_wait")]_vars

\* the block reaction was evaluated in rage: the decision ended in the telegraph delay,
\* which is set only there, with the opponent attacking within block range; the enemy
\* does not block
C13_Witness ==
    /\ BrainUpdated /\ hist.cond = "acting"
    /\ RageActive(enemy.hp)
    /\ brain.decision_timer = BaseThink(brain) + 100
    /\ ~enemy.is_blocking /\ brain.state # "block_wait"

\* C14: an update of an acting enemy whose rage is active never begins a retreat
\* (_begin_retreat stamps retreat_start with the clock the update read), neither from the
\* post-attack retreat roll nor from the low-stamina branch, for quick and heavy attacks
C14_NoRetreatInRage ==
    (BrainUpdated /\ hist.cond = "acting" /\ RageActive(enemy.hp))
        => ~(brain.state = "retreat" /\ brain.retreat_start = hist.t)

-----------------------------------------------------------------------------
(* Claims about the AttackStyleSystem (checked under SpecStyles)             *)

\* C15: after construction, after reset and after every update (rotations and stale
\* replacements in any order, both in one update included) the number of active
\* archetypes equals blend_count and the active weights sum to exactly 1
C15_BlendInvariant ==
    /\ Len(styles.active) = styles.blend_count
    /\ Len(styles.nums) = styles.blend_count
    /\ Cardinality(Range(styles.active)) = styles.blend_count
    /\ styles.den > 0
    /\ SumSeq(styles.nums) = styles.den

\* an update both rotated the lowest weight out and replaced the stale dominant
\* archetype, and the blend still has blend_count archetypes with weights summing to 1
C15_Witness ==
    /\ last.op = "update" /\ last.rotated /\ last.replaced
    /\ styles.blend_count >= 2
    /\ Len(styles.active) = styles.blend_count
    /\ SumSeq(styles.nums) = styles.den

\* C16: after every update and reset the published modifiers are the pure weighted sum
\* of the active archetypes' coefficient vectors, field by field, with no default
\* baseline added
C16_PureWeightedSum ==
    last.op \in {"update", "reset"} => styles.modifiers = PureBlend(styles)

-----------------------------------------------------------------------------
(* Claims about the DifficultyBalancer (checked under SpecBalancer)          *)

\* C17: from empty statistics and hits only, balance_score() is strictly positive after
\* N >= 1 player hits and no enemy hit, strictly negative after N >= 1 enemy hits and no
\* player hit, and exactly 0 after equal numbers of player and enemy hits of equal
\* damage
C17_BalanceSymmetry ==
    LET st == balancer.stats
        score == BalanceScore(st)
        hits_only == st.player_misses = 0 /\ st.enemy_misses = 0
                       /\ st.player_blocks_success = 0 /\ st.player_dodges = 0
    IN  hits_only =>
          /\ (st.player_hits >= 1 /\ st.enemy_hits = 0) => score.n > 0
          /\ (st.enemy_hits >= 1 /\ st.player_hits = 0) => score.n < 0
          /\ (st.player_hits = st.enemy_hits
                /\ st.player_damage_dealt = st.player_damage_taken) => score.n = 0

\* C18: reset leaves rounds_player_won and rounds_enemy_won as they were and returns
\* every other counter, the smoothed score and the modifiers to their initial values;
\* full_reset returns everything to its initial value
C18_ResetKeepsRoundsOnly ==
    /\ last.op = "reset" =>
          balancer = [DifficultyBalancerInit EXCEPT
                         !.stats.rounds_player_won = last.before.stats.rounds_player_won,
                         !.stats.rounds_enemy_won = last.before.stats.rounds_enemy_won]
    /\ last.op = "full_reset" => balancer = DifficultyBalancerInit

\* a reset of a balancer with a won round, recorded events, a smoothed score and
\* modifiers away from their defaults
C18_Witness ==
    /\ last.op = "reset"
    /\ last.before.stats.rounds_player_won > 0
    /\ last.before.stats.player_hits > 0
    /\ last.before.stats.total_fight_time > 0
    /\ last.before.smooth_score # QInt(0)
    /\ last.before.modifiers.aggression_mult # QInt(1)
    /\ balancer.stats.rounds_player_won > 0
    /\ balancer.smooth_score = QInt(0)

-----------------------------------------------------------------------------
(* Claims about the AdaptiveLearning confidence (checked under SpecLearner)  *)

\* C19: the confidence stays within [0, confidence_max] after every observe, and it is
\* higher after an observe than before it only if that call detected a rising edge of
\* the opponent's attacking, blocking or dodging flag
C19_ConfidenceBoundedAndEarned ==
    /\ learner.confidence >= 0
    /\ learner.confidence <= confidence_max
    /\ (last.op = "observe" /\ learner.confidence > last.before) => last.edge

\* an observe that saw a flag held up from the frame before (no rising edge) left the
\* confidence as it was, after an earlier observe had raised it
C19_Witness ==
    /\ last.op = "observe" /\ ~last.edge
    /\ learner.player_was_attacking
    /\ learner.confidence = last.before
    /\ learner.confidence > 0 /\ learner.confidence < confidence_max

\* C20: the confidence is lower after an observe than before it only if no attack,
\* block or dodge event was detected during the 2 seconds of observed time before it
C20_DecayOnlyAfterQuiet ==
    (last.op = "observe" /\ learner.confidence < last.before)
        => last.quiet > inactivity_limit

-----------------------------------------------------------------------------
(* Claims about the CounterAdvice (checked under SpecAdvice)                  *)

Reanalysed == last.op = "observe" /\ last.analysed

\* C21: whenever the advice is regenerated with fewer than min_events_for_advice recent
\* attacks, every CounterAdvice field has its default value, whatever the profile, the
\* confidence and the advice held before
C21_DefaultsBelowThreshold ==
    (Reanalysed /\ last.n_attacks < min_events_for_advice)
        => learner.advice = CounterAdviceInit

\* advice that differed from the defaults in half of its fields or more was reset to
\* them by a re-analysis that counted too few attacks, with a profile unlike the
\* default one and some confidence gained
C21_Witness ==
    /\ Reanalysed /\ last.n_attacks < min_events_for_advice
    /\ last.before.aggression_adj # CounterAdviceInit.aggression_adj
    /\ last.before.feint_rate # CounterAdviceInit.feint_rate
    /\ last.before.heavy_bias # CounterAdviceInit.heavy_bias
    /\ last.before.preferred_engage_dist # CounterAdviceInit.preferred_engage_dist
    /\ last.before.dodge_readiness # CounterAdviceInit.dodge_readiness
    /\ learner.profile.attack_rhythm > 60
    /\ learner.confidence > 0
    /\ learner.advice = CounterAdviceInit

\* C22: advice regenerated from enough events is a function of the profile and the
\* confidence alone: it is the advice a learner holding the default advice produces
\* from the same profile and confidence
C22_AdviceFromProfileOnly ==
    (Reanalysed /\ last.n_attacks >= min_events_for_advice)
        => learner.advice = GenerateAdvice(CounterAdviceInit, learner.profile,
                                           last.n_attacks, learner.confidence)

-----------------------------------------------------------------------------
(* Claims about the stamina gate (checked under SpecStamina)                  *)

\* C23: the enemy's stamina is never below zero, and a call of the attack-execution
\* path that picks an attack with the stamina below the minimum that attack needs
\* (half its cost, a tenth of it in rage) returns zero damage and changes nothing: no
\* swing started, no cooldown started, no stamina drained
C23_StaminaGate ==
    /\ stamina.stamina >= 0
    /\ (last.op = "execute" /\ last.attack # "none"
            /\ last.s.stamina * 100 <
                   (IF last.attack = "quick" THEN STAMINA_ATTACK_COST
                    ELSE STAMINA_HEAVY_ATTACK_COST)
                   * (IF RageActive(last.e.hp) THEN 10 ELSE 50))
        => /\ last.dmg = 0
           /\ enemy = last.e
           /\ brain = last.b
           /\ stamina = last.s

\* after an earlier attack was committed and drained what stamina was left, with the
\* cooldown elapsed and the enemy free to act, a call picked a quick attack and was
\* refused for lack of stamina
C23_Witness ==
    /\ last.op = "execute" /\ last.attack = "quick"
    /\ last.s.stamina * 2 < STAMINA_ATTACK_COST
    /\ ~RageActive(last.e.hp)
    /\ last.b.last_attack_type # "none"
    /\ last.b.cooldown_timer = 0 /\ last.e.anim_state = "idle"
    /\ last.dmg = 0 /\ enemy.anim_state = "idle" /\ brain.cooldown_timer = 0
    /\ stamina = last.s

-----------------------------------------------------------------------------
(* Claims about the pending buffers (checked under SpecPending)               *)

\* what one attack can put into the damage buffer: a quick or heavy attack, or the
\* Duelist's counter or combo strike
SingleDamages(b) ==
    {AttackDamage(b, "quick"), AttackDamage(b, "heavy")} \cup
    (IF IsDuelist(b) THEN {Scaled(DUELIST_COUNTER_DAMAGE, DUELIST_DAMAGE_MULT),
                           Scaled(DUELIST_COMBO_DAMAGE, DUELIST_DAMAGE_MULT)}
     ELSE {})

\* C24: the damage buffer holds nothing or the damage of one attack (a new attack
\* overwrites an uncollected value, it is not added to it); get_pending_damage returns
\* what is buffered and leaves 0, so a call right after another returns 0; the same
\* for get_pending_projectile and the projectile flag
C24_ConsumeAndClear ==
    /\ brain.pending_damage \in {0} \cup SingleDamages(brain)
    /\ last.op = "get_damage"
          => /\ last.returned = last.damage
             /\ brain.pending_damage = 0
             /\ (last.prev_op = "get_damage" => last.returned = 0)
    /\ last.op = "get_projectile"
          => /\ last.returned = (IF last.projectile THEN 1 ELSE 0)
             /\ ~brain.pending_projectile
             /\ (last.prev_op = "get_projectile" => last.returned = 0)

\* an attack overwrote a value that had not been collected, a call of
\* get_pending_damage handed the new value out and the call right after it returned 0
C24_Witness ==
    /\ last.op = "get_damage" /\ last.prev_op = "get_damage"
    /\ last.overwrote
    /\ last.prev_returned > 0
    /\ last.returned = 0

-----------------------------------------------------------------------------
(* Claims about the first frame (checked under SpecOpening)                   *)

\* the first update of a freshly constructed brain at distance 50 from an idle opponent
FirstFrameDone ==
    /\ last.op = "update"
    /\ last.frames = 1
    /\ last.dist = 50
    /\ ~last.player_is_attacking

\* C25: after the first update of a freshly constructed brain, with the enemy at full
\* HP, at distance 50 from an idle opponent, the attack intent is above base_intent
\* (0.15), the phase is Observe, the tempo mode is "balanced" and the FSM state is one
\* of chase, attack, strafe
C25_FirstFrame ==
    FirstFrameDone =>
        /\ intent.attack_intent > base_intent
        /\ ps.phase = OBSERVE
        /\ aggression.tempo_mode = "balanced"
        /\ brain.state \in {"chase", "attack", "strafe"}

-----------------------------------------------------------------------------
(* Claims about the spam detection (checked under SpecPunish)                 *)

\* C26: once the opponent has started at least spam_counter_threshold (4) separate
\* attacks within two seconds, player_is_spamming is True; and while it is True the
\* attack decision takes the intent as high whatever the threshold
C26_SpamDetected ==
    /\ Len(last.starts) >= spam_counter_threshold => aggression.punish.player_is_spamming
    /\ aggression.punish.player_is_spamming =>
           \A sm \in StyleAggressionSet :
               IntentHigh(intent, aggression,
                          IntentThreshold(ps.modifiers.aggression_mult,
                                          NeutralDfmAggression, sm))

-----------------------------------------------------------------------------
(* Claims about forced attacks, feints and the telegraph (checked under       *)
(* SpecOpening); last.tr is the path the last update took                     *)

\* C27: an update in which the risk combo chain or the punish window forced the
\* attack state (the enemy can act, the cooldown has elapsed, the opponent is within
\* heavy-attack range) calls the attack-execution path, whatever the attack intent
C27_ForcedAttackExecuted == last.tr.forced => last.tr.executed

\* an update that started in the feint state
FeintUpdate == last.op = "update" /\ last.state = "feint"

\* the feint timer is decremented by the frame length in every update spent in feint
FeintTimerDecremented == FeintUpdate => brain.feint_timer = last.feint_timer - last.dt

\* in the update in which the feint timer reaches zero the state is switched to attack
\* and _decide_state is called in that same update, from the attack state
FeintExpiryRedecided ==
    (FeintUpdate /\ last.feint_timer - last.dt <= 0) =>
        /\ last.tr.feint_expired
        /\ last.tr.decided
        /\ last.tr.state_in = "attack"

\* C28, as stated: the feint timer is decremented in every update spent in feint, at
\* its expiry the state is switched to attack and the decision re-evaluated in the same
\* update, and the brain is never in feint for more than feint_cancel_window of update
\* time
C28_FeintWithinWindow ==
    /\ FeintTimerDecremented
    /\ FeintExpiryRedecided
    /\ last.feint_run <= feint_cancel_window

\* C28, amended: as above, but the update time spent in feint stays below
\* feint_cancel_window plus the length of the update that ends the feint, and below
\* feint_cancel_window while the feint lasts
C28_FeintResolves ==
    /\ FeintTimerDecremented
    /\ FeintExpiryRedecided
    /\ last.feint_run < feint_cancel_window + last.dt
    /\ brain.state = "feint" => last.feint_run < feint_cancel_window

\* a feint that ran out in its second update of 100 ms, 200 ms after it began: the
\* decision was taken again and left the feint
C28_Witness ==
    /\ FeintUpdate
    /\ last.tr.feint_expired
    /\ last.tr.decided
    /\ last.feint_run = 200
    /\ last.dt = 100
    /\ brain.state # "feint"

\* C29: in the update in which the feint timer expires, with the enemy able to act, the
\* cooldown elapsed and the opponent within the engage distance, an attack is committed
\* through the attack-execution path
C29_FeintThenAttack ==
    (/\ last.tr.feint_expired
     /\ last.tr.ready
     /\ \A sp \in SpacingSet : last.dist <= ENEMY_HEAVY_RANGE + sp)
        => last.tr.committed

\* C30: a decision whose block / dodge reaction ends in the telegraph leaves the FSM
\* state and the enemy as they were (no dodge, no block) and sets the decision timer
\* to the think interval plus 0.10 s
C30_TelegraphEndsDecision ==
    last.tr.reaction = "telegraph" =>
        /\ last.tr.state_out = last.tr.state_in
        /\ last.tr.unmoved
        /\ brain.decision_timer = last.tr.think + 100

\* the telegraph ended a decision that the punish window had forced into the attack
\* state, the opponent attacking again at distance 50
C30_Witness ==
    /\ last.tr.reaction = "telegraph"
    /\ last.tr.forced
    /\ last.tr.state_in = "attack"
    /\ last.player_is_attacking
    /\ last.dist = 50
    /\ brain.decision_timer = last.tr.think + 100

-----------------------------------------------------------------------------
(* Claims about the retreat (checked under SpecUnhurt, whose fight is longer  *)
(* than ENEMY_RETREAT_DURATION)                                               *)

\* a retreat whose duration has not elapsed at the clock value now
MidRetreat ==
    brain.state = "retreat" /\ now - brain.retreat_start < ENEMY_RETREAT_DURATION

\* a retreat whose duration has elapsed at the clock value now
RetreatElapsed ==
    brain.state = "retreat" /\ now - brain.retreat_start >= ENEMY_RETREAT_DURATION

\* _decide_state called mid-retreat leaves the brain, the enemy and the phase system
\* as they are, whatever the frame
RetreatCommitted ==
    MidRetreat =>
        \A f \in Frames : \A w \in DecideState(World, f, now) :
            w.b = brain /\ w.e = enemy /\ w.ps = ps

\* C31: mid-retreat a decision re-evaluation leaves the state as retreat; once the
\* retreat duration has elapsed, the next update of an alive, unstunned enemy ends
\* in a state other than retreat
C31_RetreatNotAbsorbing ==
    [][ /\ RetreatCommitted
        /\ (now' # now /\ FrameCondition(enemy) = "acting" /\ RetreatElapsed)
              => brain'.state # "retreat" ]_vars

\* the update that follows an elapsed retreat ends in retreat only by beginning a new
\* one at the clock value it read
RetreatOnlyRenewed ==
    [][ (now' # now /\ FrameCondition(enemy) = "acting" /\ RetreatElapsed
         /\ brain'.state = "retreat") => brain'.retreat_start = now ]_vars

-----------------------------------------------------------------------------
(* Claims about the stale dominant archetype (checked under SpecStyles)       *)

\* weight i of s is in the proportion floor : w to weight j, w the weight j had in s4
AtFloorBeside(s, s4, i, j) ==
    LET floor == min_weight * s4.den
        w == s4.nums[j] * 100
        g == Gcd(s.nums[i], s.nums[j])
        h == Gcd(floor, w)
    IN  s.nums[i] \div g = floor \div h /\ s.nums[j] \div g = w \div h

\* the update s4 -> s, whose staleness check found the dominant archetype of s4 stale,
\* took it out of the active set and put a previously inactive archetype in its place,
\* with staleness 0 and the weight cfg.min_weight before the renormalisation
StaleDominantReplaced(s4, s) ==
    LET d == DominantArchetype(s4)
        idx == MaxIdx(s4.nums)
    IN  /\ d \notin Range(s.active)
        /\ s.active[idx] \notin Range(s4.active)
        /\ s.staleness[s.active[idx]] = 0
        /\ \A j \in DOMAIN s.active \ {idx} :
              s.active[j] = s4.active[j] /\ AtFloorBeside(s, s4, idx, j)

\* the dominant archetype at the end of an update has not been active for more than
\* cfg.staleness_timer
NoStaleDominant ==
    last.op = "update" => styles.staleness[DominantArchetype(styles)] <= staleness_timer

\* the last operation was an update whose staleness check found the dominant
\* archetype active for more than cfg.staleness_timer
StaleFound == last.op = "update" /\ last.stale # "none"

-----------------------------------------------------------------------------
(* Claims about the alignment of DesperationMode with the phase machine       *)
(* (checked under SpecDesperation)                                            *)

\* the phase machine's Desperation condition at the HP fraction hp: PhaseSystem.update
\* takes a machine that is in Observe to Desperation or beyond
PhaseDesperationCondition(hp) == NextPhase(OBSERVE, 0, 0, hp, 0) >= DESPERATION

\* its Rage condition: PhaseSystem.update takes the machine to Rage
PhaseRageCondition(hp) == NextPhase(OBSERVE, 0, 0, hp, 0) = RAGE

\* C33: for every HP fraction fed to both in the same frame, the phase machine's
\* Desperation condition holds exactly when the desperation controller is active, and
\* its Rage condition exactly when rage_active is True
C33_AlignedOnHp ==
    DesperationUpdated =>
        /\ PhaseDesperationCondition(last.hp) <=> desp.m.active
        /\ PhaseRageCondition(last.hp) <=> desp.m.rage_active

\* the two agree at every HP fraction other than activation_threshold itself
AlignedOffThreshold ==
    (DesperationUpdated /\ last.hp # activation_threshold) =>
        /\ PhaseDesperationCondition(last.hp) <=> desp.m.active
        /\ PhaseRageCondition(last.hp) <=> desp.m.rage_active

-----------------------------------------------------------------------------
(* Claims about the risk-combo counter (checked under Spec; hist.committed    *)
(* tells whether the update committed an attack through _execute_attack)      *)

\* the counter r after one committed attack: one less while a risk combo runs
Consumed(r) == IF r > 0 THEN r - 1 ELSE r

\* C34: _risk_combo_remaining stays within 0 .. risk_combo_hits - 1; an update that
\* commits no attack leaves it alone; an update that commits one takes one off it, and
\* sets it to risk_combo_hits - 1 only if the attack did damage, desperation is
\* active and the counter was at 0 after the attack
C34_RiskComboCounter ==
    [][ now' # now =>
          LET r == brain.risk_combo_remaining
              r2 == brain'.risk_combo_remaining
          IN  /\ r2 \in 0..(risk_combo_hits - 1)
              /\ ~hist'.committed => r2 = r
              /\ hist'.committed =>
                    \/ r2 = Consumed(r)
                    \/ /\ r2 = risk_combo_hits - 1
                       /\ Consumed(r) = 0
                       /\ brain'.pending_damage > 0
                       /\ DespActive(enemy'.hp) ]_vars

\* an update of an enemy in desperation committed the second hit of a risk combo: the
\* counter, set to 2 by the first, is at 1
C34_Witness ==
    /\ hist.op = "update" /\ hist.committed
    /\ brain.risk_combo_remaining = risk_combo_hits - 2
    /\ DespActive(enemy.hp)
    /\ enemy.anim_state = "attack"

-----------------------------------------------------------------------------
(* Claims about the block (checked under Spec)                                *)

\* C35: at the end of every AIBrain.update, if the FSM state is not block_wait then
\* the enemy is not blocking
C35_BlockConfinedToBlockWait ==
    hist.op = "update" => (brain.state # "block_wait" => ~enemy.is_blocking)

-----------------------------------------------------------------------------
(* Claims about AIBrain.reset (checked under SpecReset)                       *)

\* what reset assigns: the state, the cooldown, the pending damage, the idle-frame and
\* risk-combo counters, the feint timer and the event flags
ResetAssigned ==
    hist.op = "reset" =>
        /\ brain.state = "chase"
        /\ brain.cooldown_timer = 0
        /\ brain.pending_damage = 0
        /\ brain.idle_frames = 0
        /\ brain.feint_timer = 0
        /\ brain.risk_combo_remaining = 0
        /\ ~brain.event_phase_transition
        /\ ~brain.event_rage_entered
        /\ ~brain.event_perfect_counter

\* C37: after AIBrain.reset the state is chase, the pending melee damage and the
\* pending projectile flag are cleared, the cooldown, feint and decision timers and the
\* idle-frame and risk-combo counters are zero, and the event flags are False
C37_ResetClearsEverything ==
    hist.op = "reset" =>
        /\ ResetAssigned
        /\ ~brain.pending_projectile
        /\ brain.decision_timer = 0

\* a projectile buffered by the update before the reset is still buffered after it
ProjectileSurvivesReset == hist.op = "reset" /\ brain.pending_projectile

\* a decision timer set before the reset is still running after it
DecisionTimerSurvivesReset == hist.op = "reset" /\ brain.decision_timer > 0

-----------------------------------------------------------------------------
(* Claims about the two HP-driven sub-systems of one brain (checked under     *)
(* SpecAligned)                                                               *)

\* C36: after every AIBrain.update, desperation.modifiers.active implies that the
\* phase is Desperation or Rage, and desperation.modifiers.rage_active implies that
\* the phase is Rage
C36_DesperationWithinPhase ==
    last.op = "update" =>
        /\ desp.m.active => ps.phase >= DESPERATION
        /\ desp.m.rage_active => ps.phase = RAGE

\* an update at the rage threshold itself: rage_active is up and the phase is Rage
C36_Witness ==
    /\ last.op = "update" /\ last.cond = "acting"
    /\ last.hp = rage_hp_threshold
    /\ desp.m.active /\ desp.m.rage_active
    /\ ps.phase = RAGE

\* after regeneration from rage: the controller is active without rage, the phase
\* has stayed Rage
RegeneratedFromRage ==
    /\ last.op = "update" /\ last.cond = "acting"
    /\ last.hp > rage_hp_threshold
    /\ desp.m.active /\ ~desp.m.rage_active
    /\ ps.phase = RAGE

-----------------------------------------------------------------------------
(* Claims about a refused attack (checked under SpecStamina)                  *)

\* the last call of _execute_attack returned before it picked an attack: the enemy
\* could not act, was in a swing or was on cooldown
RefusedEarly == last.op = "execute" /\ last.attack = "none"

\* the last call of _execute_attack picked an attack and was refused by the stamina gate
RefusedByStamina ==
    /\ last.op = "execute" /\ last.attack # "none"
    /\ last.s.stamina < MinNeeded(last.attack, last.e.hp)

\* the brain's cooldown, last attack type and risk-combo counter are as before the call
BrainAsBefore ==
    /\ brain.cooldown_timer = last.b.cooldown_timer
    /\ brain.last_attack_type = last.b.last_attack_type
    /\ brain.risk_combo_remaining = last.b.risk_combo_remaining

\* C38: when _execute_attack returns 0 because the enemy cannot act, is mid-swing, is
\* on cooldown or fails the stamina gate, the brain's cooldown, last attack type and
\* risk-combo counter and the style system's anti-repetition buffer are unchanged
C38_RefusedLeavesNoTrace ==
    (RefusedEarly \/ RefusedByStamina) =>
        /\ last.dmg = 0
        /\ BrainAsBefore
        /\ styles.action_buffer = last.st.action_buffer

\* a refusal leaves the brain as it was, and one that comes before the pick of the
\* attack type leaves the buffer as it was
RefusalLeavesBrain ==
    /\ (RefusedEarly \/ RefusedByStamina) => (last.dmg = 0 /\ BrainAsBefore)
    /\ RefusedEarly => styles.action_buffer = last.st.action_buffer

\* a refusal by the stamina gate has appended the refused attack to the buffer
RefusalRecorded ==
    /\ RefusedByStamina
    /\ enemy = last.e /\ stamina = last.s
    /\ styles.action_buffer = Append(last.st.action_buffer, last.attack)

=============================================================================
